---------------------------- MODULE Spec2Model ----------------------------
(***************************************************************************)
(* A model of ascii1090: the aircraft tracker (internal/adsb Tracker), the *)
(* dump1090 client (Dump1090Client) and the application loop (ui.App).     *)
(*                                                                         *)
(* Aircraft objects live on a heap and are named by references, because    *)
(* the tracker's map, the slices GetAll returns and the list view all hold *)
(* *Aircraft pointers to the same objects.                                 *)
(***************************************************************************)
EXTENDS Integers, Sequences, FiniteSets, TLC

VARIABLES
    \* Tracker (unnamed/part_006)
    heap,       \* Aircraft objects that became tracker entries, by reference
    hist,       \* history: per object, the records applied to it, in order
    after,      \* history: per object, the entry as each Update left it
    aircraft,   \* Tracker.aircraft: map from ICAO to *Aircraft (a reference)
    mu,         \* Tracker.mu: "free" or "W" (write-locked)
    timeout,    \* Tracker.timeout
    removed,    \* the value the last PruneStale returned
    upc,        \* Tracker.Update: 0 = not running, k = next write is Fields[k]
    uac,        \* Tracker.Update: the record ac of the latest call
    dirty,      \* history: an Update or PruneStale ran since the latest GetAll
    lastOp,     \* the tracker or clock operation that took the latest step
    \* the render loop (ui.App.update, ui.App.render)
    snap,       \* the slice returned by the latest GetAll (references)
    seen,       \* what the loop last read through snap: <<ref, value>>
    first,      \* what the latest GetFirstWithPosition returned, 0 for nil
    mapFeatures, \* MapRenderer.features: the features of each type, as loaded
    \* ui.ListView (unnamed/part_002), ui.DetailView (part_001), ui.App
    listView,   \* ListView: aircraft (the slice of references it was given),
                \* selectedIndex, scrollOffset, maxVisible, height
    detailView, \* DetailView.aircraft: a reference, 0 for nil
    currentView, \* App.currentView: "Map" or "Detail"
    quit,       \* App.quit: "open" or "closed"
    dl,         \* MapRenderer.DrawLine run on machine integers: its
                \* arguments, its locals and the iterations made so far
    \* ui.MapView (unnamed/part_002) and render.MapRenderer (part_003)
    projs,      \* the geo.Projection objects, by reference
    cvs,        \* the render.Canvas objects, by reference
    mapView,    \* MapView: projection and canvas (references), centerSet,
                \* width, height, radiusMiles, aspectRatio
    renderer,   \* MapRenderer: projection and canvas (references)
    writes,     \* history: the Canvas.Set calls of the latest Draw, in order
    req,        \* the latest request made to the view, with its arguments
    \* time
    now,        \* the clock (seconds)
    nextTick,   \* StartPruning: when the ticker fires next
    \* Dump1090Client (internal/adsb/aircraft.go)
    conn,       \* the connection: "open" or "closed"
    connCloses, \* how many times conn.Close() ran
    kills,      \* how many times cmd.Process.Kill() ran
    isLocalCLI, \* Dump1090Client.isLocalCLI
    linesLeft,  \* lines the source still delivers to the scanner
    scanned,    \* history: the lines the scanner returned, <<line, time>>
    msgChan,    \* the records buffered in msgChan
    msgClosed,  \* msgChan is closed
    errChan,    \* the errors buffered in errChan
    errClosed,  \* errChan is closed
    doneClosed, \* done is closed
    closeOnce,  \* closeOnce: "fresh", "running" or "done"
    rlpc,       \* readLoop: "scan", "send", "sendErr" or "exited"
    rlAc,       \* readLoop: the record it is sending
    panicked,   \* the panic raised, "" when none
    \* ui.App and main
    apc,        \* main goroutine: "run", "cancel", "close", "deferred", "exit"
    cpc,        \* per caller of Close: "idle", "once", "conn", "wait",
                \* "chans" or "ret"
    cancelled,  \* App.ctx is cancelled
    rmpc,       \* App.readMessages: "select" or "exited"
    prpc        \* the pruning goroutine: "wait" or "exited"

trackerVars == <<heap, hist, after, aircraft, mu, timeout, removed, upc, uac,
                 dirty,
                 lastOp>>
renderVars == <<snap, seen>>
uiVars == <<listView, detailView, currentView, quit, dl>>
viewVars == <<first, mapFeatures, uiVars, projs, cvs, mapView, renderer, writes, req>>
clientVars == <<conn, connCloses, kills, isLocalCLI, linesLeft, scanned, msgChan,
                msgClosed, errChan, errClosed, doneClosed, closeOnce, rlpc,
                rlAc, panicked>>
appVars == <<apc, cpc, cancelled, rmpc, prpc>>
vars == <<trackerVars, renderVars, viewVars, now, nextTick, clientVars, appVars>>

---------------------------------------------------------------------------
(* Bounds of the model *)

\* at most this many records are passed to Tracker.Update
MaxUpdates == 3

\* at most this many records are fed while the render loop reads entries
MaxRaceUpdates == 2

\* at most this many records are fed between sweeps
MaxSweepUpdates == 3

\* the instants the clock visits (seconds); time only moves forward
Instants == {0, 60}

\* the instants the clock visits while the sweep is studied
SweepInstants == {0, 1, 60, 61}

\* on the clock: records arrive up to MaxFeedTime, the clock stops at MaxTime
MaxTimedUpdates == 2
MaxFeedTime == 11
MaxTime == 82

\* the lines the source delivers during shutdown, and how far its clock goes
MaxLines == 3
MaxShutdownTime == 10

\* tracks and headings range over -MaxAngle .. MaxAngle degrees
MaxAngle == 405

\* the grid the view is built with where its size is not studied (cells),
\* the -r flag's default (hundredths of a mile: 150 miles) and the -a
\* flag's default (tenths: 2.0)
DefaultWidth == 12
DefaultHeight == 6
DefaultRadius == 15000
DefaultAspect == 20

\* the sizes, radii and aspect ratios the view is built with and resized
\* to where they are studied; the -r flag is not validated, the -a flag is
\* (1.0 to 4.0); a radius of 0 makes both scales infinite and is left out
GridSizes == {<<12, 6>>, <<8, 4>>}
ResizeSizes == {<<12, 6>>, <<8, 4>>, <<0, 0>>, <<8, 0>>}
RadiusArgs == {0 - 15000, 1000, 15000, 100000}
AspectArgs == {10, 20, 40}

\* at most this many projections and canvases are allocated
MaxViewObjects == 5

\* at most this many records are fed while frames are drawn
MaxDrawUpdates == 2

\* the canvas on which single calls are made (cells), and how many Set
\* calls a canvas has had at most when a call is made on it
CanvasWidth == 5
CanvasHeight == 3
MaxCanvasWrites == 2

\* at most this many records reach the tracker while the list is studied
MaxListUpdates == 3

\* how far from the centre, in tenths of a degree on each axis, the
\* coordinates given to Project lie
ProjReach == 12

\* the grid on which cities and airports are placed (cells)
PlaceWidth == 34
PlaceHeight == 8

\* at most this many records are fed with any time stamp
MaxStampUpdates == 3

\* at most this many records are fed while the first locked aircraft is
\* looked for
MaxLockUpdates == 3

\* at most this many records reach the tracker while no-op calls are studied
MaxNoopUpdates == 2

\* the timeouts NewTracker is given when the timeout is studied
TimeoutArgs == {0, 30, 60}

---------------------------------------------------------------------------
(* Aircraft (internal/adsb/aircraft.go) *)

\* a nil *float64, and a pointer to the value v
NilF == <<>>
Ptr(v) == <<v>>

\* ICAO strings are sequences of character codes, compared as Go compares
\* strings: "A1", "B" and the empty string
ICAO_A1 == <<65, 49>>
ICAO_B == <<66>>
ICAO_Empty == <<>>
ICAO_A == <<65>>

\* the empty string, and the call sign "UAL1"
EmptyString == <<>>
UAL1 == <<85, 65, 76, 49>>

\* the fields Tracker.Update merges, in the order it merges them
Fields == <<"FlightNumber", "Latitude", "Longitude", "Altitude", "Speed",
            "Heading", "Track", "VerticalRate">>

\* the zero value of a field: "", nil or 0
ZeroOf(f) ==
    CASE f = "FlightNumber" -> EmptyString
      [] f \in {"Latitude", "Longitude"} -> NilF
      [] OTHER -> 0

\* &Aircraft{ICAO: icao, LastSeen: t}
NewAircraft(icao, t) ==
    [ICAO |-> icao, FlightNumber |-> EmptyString, Latitude |-> NilF, Longitude |-> NilF,
     Altitude |-> 0, Speed |-> 0, Heading |-> 0, Track |-> 0,
     VerticalRate |-> 0, LastSeen |-> t]

\* a nil *Aircraft
NilAircraft == [nil |-> TRUE]

\* Go's remainder a % b for b > 0: it has the sign of a
GoRem(a, b) == IF a >= 0 THEN a % b ELSE 0 - ((0 - a) % b)

\* CardinalDirection: `direction = direction % 360`, and 360 more when the
\* result is negative
NormalizeMutant(d) == GoRem(d, 360)
Normalize(d) == IF GoRem(d, 360) < 0 THEN GoRem(d, 360) + 360 ELSE GoRem(d, 360)

\* the runes of CardinalDirection: ^ (N), U+2510 (NE), > (E), U+2518 (SE),
\* v (S), U+2514 (SW), < (W), U+250C (NW), and U+00B7, the fallback
Arrows == <<94, 9488, 62, 9496, 118, 9492, 60, 9484>>
Fallback == 183

\* Aircraft.CardinalDirection
CardinalDirection(a) ==
    LET direction == Normalize(IF a.Track = 0 /\ a.Heading # 0 THEN a.Heading
                               ELSE a.Track)
    IN  CASE direction >= 338 \/ direction < 23 -> Arrows[1]
          [] direction >= 23 /\ direction < 68 -> Arrows[2]
          [] direction >= 68 /\ direction < 113 -> Arrows[3]
          [] direction >= 113 /\ direction < 158 -> Arrows[4]
          [] direction >= 158 /\ direction < 203 -> Arrows[5]
          [] direction >= 203 /\ direction < 248 -> Arrows[6]
          [] direction >= 248 /\ direction < 293 -> Arrows[7]
          [] direction >= 293 /\ direction < 338 -> Arrows[8]
          [] OTHER -> Fallback

\* Aircraft.PositionLocked
PositionLockedMutant(a) == a.Latitude # NilF
PositionLocked(a) == a.Latitude # NilF /\ a.Longitude # NilF

\* the age at which IsStale reports an aircraft stale: 60*time.Second
StaleAfter == 60

\* Aircraft.IsStale at clock t: time.Since(a.LastSeen) >= 60*time.Second
IsStaleMutant(a, t) == t - a.LastSeen > StaleAfter
IsStale(a, t) == t - a.LastSeen >= StaleAfter

\* Go's string comparison a < b (lexicographic, a proper prefix is smaller)
RECURSIVE StrLess(_, _)
StrLess(a, b) ==
    IF b = <<>> THEN FALSE
    ELSE IF a = <<>> THEN TRUE
    ELSE IF Head(a) # Head(b) THEN Head(a) < Head(b)
    ELSE StrLess(Tail(a), Tail(b))

---------------------------------------------------------------------------
(* The records the tracker is fed.  Latitudes and longitudes are in tenths *)
(* of a degree.  A record sets any subset of the fields (SBSParser.Parse   *)
(* fills each field on its own); the shapes below are the ones the claims  *)
(* speak of.                                                               *)

Shapes ==
    { [f \in {} |-> 0],
      [Latitude |-> Ptr(400), Longitude |-> Ptr(-1000)],
      [Latitude |-> Ptr(401), Longitude |-> Ptr(-1001)],
      [Latitude |-> Ptr(402)],
      [Speed |-> 200],
      [Speed |-> 300],
      [FlightNumber |-> UAL1, Altitude |-> 5000, Heading |-> 90,
       Track |-> 90, VerticalRate |-> -64] }

\* the record of shape s for icao, stamped t
Record(icao, s, t) ==
    [f \in DOMAIN NewAircraft(icao, t) |->
        IF f \in DOMAIN s THEN s[f] ELSE NewAircraft(icao, t)[f]]

\* the records fed at time t: every shape for A1, and two for B
Records(t) ==
    {Record(ICAO_A1, s, t) : s \in Shapes}
        \cup {Record(ICAO_B, s, t) :
                 s \in {[f \in {} |-> 0],
                        [Latitude |-> Ptr(400), Longitude |-> Ptr(-1000)]}}

\* the records fed while the render loop reads entries
RaceRecords(t) ==
    {Record(ICAO_A1, s, t) :
        s \in {[Latitude |-> Ptr(400), Longitude |-> Ptr(-1000)],
               [Latitude |-> Ptr(401), Longitude |-> Ptr(-1001)],
               [Speed |-> 300]}}

\* the records fed on the clock
TimedRecords(t) == {NewAircraft(ICAO_A1, t)}

\* the records fed with any time stamp
StampRecords(t) ==
    {Record(ICAO_A1, s, t) :
        s \in {[f \in {} |-> 0],
               [Latitude |-> Ptr(400), Longitude |-> Ptr(-1000)],
               [Speed |-> 300]}}

\* the records fed while the first locked aircraft is looked for
LockRecords(t) ==
    {Record(i, s, t) :
        i \in {ICAO_A, ICAO_A1, ICAO_B},
        s \in {[f \in {} |-> 0],
               [Latitude |-> Ptr(400), Longitude |-> Ptr(-1000)]}}
        \cup {Record(ICAO_A, [Latitude |-> Ptr(402)], t)}

\* the records fed while the direction symbol is studied: every track with
\* no heading, every heading with no track, and tracks with a heading
CardinalRecords(t) ==
    {Record(ICAO_A1, [Track |-> d], t) : d \in (0 - MaxAngle)..MaxAngle}
        \cup {Record(ICAO_A1, [Heading |-> d], t) :
                 d \in (0 - MaxAngle)..MaxAngle}
        \cup {Record(ICAO_A1, [Track |-> d, Heading |-> 180], t) :
                 d \in {0 - 90, 45, 360}}

\* the records fed while frames are drawn: A1 without position, at 40.0,
\* -100.0 (where the label of the city "Ab" begins) and with a latitude
\* alone; B over the airport "K" heading east, and far outside the view
DrawRecords(t) ==
    {Record(ICAO_A1, s, t) :
        s \in {[f \in {} |-> 0],
               [Latitude |-> Ptr(400), Longitude |-> Ptr(0 - 1000)],
               [Latitude |-> Ptr(402)]}}
        \cup {Record(ICAO_B, s, t) :
                 s \in {[Latitude |-> Ptr(410), Longitude |-> Ptr(0 - 975),
                         Track |-> 90],
                        [Latitude |-> Ptr(500), Longitude |-> Ptr(0 - 1000)]}}

\* the records fed between sweeps: no field but the ICAO and the time
SweepRecords(t) == {NewAircraft(i, t) : i \in {ICAO_A, ICAO_A1, ICAO_B}}

---------------------------------------------------------------------------
(* Tracker (unnamed/part_006) *)

\* NewTracker's timeout: 60s when 0 is passed
NewTracker(t) == IF t = 0 THEN 60 ELSE t

\* Update's early return: `if ac == nil || ac.ICAO == "" { return }`
SkipsUpdateMutant(ac) == ac = NilAircraft
SkipsUpdate(ac) == ac = NilAircraft \/ ac.ICAO = ICAO_Empty

\* Update on an existing entry: `existing.LastSeen = ac.LastSeen`
TouchLastSeenMutant(existing, ac) ==
    IF ac.LastSeen > existing.LastSeen
    THEN [existing EXCEPT !.LastSeen = ac.LastSeen]
    ELSE existing
TouchLastSeen(existing, ac) == [existing EXCEPT !.LastSeen = ac.LastSeen]

\* one merge statement of Update: `if ac.f != zero { existing.f = ac.f }`
MergeFieldMutant(existing, ac, f) == [existing EXCEPT ![f] = ac[f]]
MergeFieldSumMutant(existing, ac, f) ==
    IF ac[f] # ZeroOf(f)
    THEN [existing EXCEPT ![f] = IF f = "Speed" THEN @ + ac[f] ELSE ac[f]]
    ELSE existing
MergeField(existing, ac, f) ==
    IF ac[f] # ZeroOf(f) THEN [existing EXCEPT ![f] = ac[f]] ELSE existing

\* the number of records passed to Update so far
RECURSIVE SumLen(_)
SumLen(hs) == IF hs = <<>> THEN 0 ELSE Len(Head(hs)) + SumLen(Tail(hs))

\* Update, from its entry to the first write of a merge: the early return,
\* the lock, the lookup, the insertion of a new entry (and return), or
\* `existing.LastSeen = ac.LastSeen`
UpdateBegin(ac) ==
    /\ upc = 0
    /\ uac' = ac
    /\ lastOp' = "Update"
    /\ IF SkipsUpdate(ac)
       THEN UNCHANGED <<heap, hist, after, aircraft, mu, upc, dirty>>
       ELSE /\ mu = "free"
            /\ dirty' = TRUE
            /\ IF ac.ICAO \notin DOMAIN aircraft
               THEN /\ heap' = Append(heap, ac)
                    /\ hist' = Append(hist, <<ac>>)
                    /\ after' = Append(after, <<ac>>)
                    /\ aircraft' = [k \in DOMAIN aircraft \cup {ac.ICAO} |->
                                      IF k = ac.ICAO THEN Len(heap) + 1
                                      ELSE aircraft[k]]
                    /\ UNCHANGED <<mu, upc>>
               ELSE /\ heap' = [heap EXCEPT ![aircraft[ac.ICAO]] =
                                                TouchLastSeen(@, ac)]
                    /\ hist' = [hist EXCEPT ![aircraft[ac.ICAO]] =
                                                Append(@, ac)]
                    /\ mu' = "W"
                    /\ upc' = 1
                    /\ UNCHANGED <<aircraft, after>>
    /\ UNCHANGED <<timeout, removed>>

\* Update: the next merge statement; the last one is followed by the return,
\* which releases the lock
UpdateStep ==
    /\ upc \in 1..Len(Fields)
    /\ heap' = [heap EXCEPT ![aircraft[uac.ICAO]] =
                               MergeField(@, uac, Fields[upc])]
    /\ IF upc = Len(Fields)
       THEN /\ upc' = 0
            /\ mu' = "free"
            /\ after' = [after EXCEPT ![aircraft[uac.ICAO]] =
                                         Append(@, heap'[aircraft[uac.ICAO]])]
       ELSE upc' = upc + 1 /\ UNCHANGED <<mu, after>>
    /\ lastOp' = "Update"
    /\ UNCHANGED <<hist, aircraft, timeout, removed, uac, dirty>>
    /\ UNCHANGED <<renderVars, viewVars, now, nextTick, clientVars, appVars>>

\* the orders in which a range over a map with key set S may visit it
Orders(S) ==
    {o \in [1..Cardinality(S) -> S] :
        \A i, j \in 1..Cardinality(S) : i # j => o[i] # o[j]}

\* GetAll's less function: aircraft[i].ICAO < aircraft[j].ICAO
LessICAO(x, y) == StrLess(heap[x].ICAO, heap[y].ICAO)

\* sort.Slice on a short slice: insertion sort, an element moving left
\* while it is less than its left neighbour
RECURSIVE InsertLeft(_, _)
InsertLeft(s, x) ==
    IF s # <<>> /\ LessICAO(x, s[Len(s)])
    THEN Append(InsertLeft(SubSeq(s, 1, Len(s) - 1), x), s[Len(s)])
    ELSE Append(s, x)

RECURSIVE SortSlice(_)
SortSlice(s) ==
    IF s = <<>> THEN <<>>
    ELSE InsertLeft(SortSlice(SubSeq(s, 1, Len(s) - 1)), s[Len(s)])

\* GetAll's result when the range visits the keys in order o
GetAllMutant(o) == [i \in 1..Len(o) |-> aircraft[o[i]]]
GetAllOf(o) == SortSlice([i \in 1..Len(o) |-> aircraft[o[i]]])

\* GetAll, called by the render loop (App.update, App.render)
GetAll ==
    /\ mu = "free"
    /\ \E o \in Orders(DOMAIN aircraft) : snap' = GetAllOf(o)
    /\ dirty' = FALSE
    /\ lastOp' = "GetAll"
    /\ UNCHANGED <<heap, hist, after, aircraft, mu, timeout, removed, upc, uac>>
    /\ UNCHANGED <<seen, viewVars, now, nextTick, clientVars, appVars>>

\* sort.Strings on a short slice: insertion sort by Go's string order
RECURSIVE InsertString(_, _)
InsertString(s, x) ==
    IF s # <<>> /\ StrLess(x, s[Len(s)])
    THEN Append(InsertString(SubSeq(s, 1, Len(s) - 1), x), s[Len(s)])
    ELSE Append(s, x)

RECURSIVE SortStringsMutant(_)
SortStringsMutant(s) == s
RECURSIVE SortStrings(_)
SortStrings(s) ==
    IF s = <<>> THEN <<>>
    ELSE InsertString(SortStrings(SubSeq(s, 1, Len(s) - 1)), s[Len(s)])

\* GetFirstWithPosition's loop over the sorted keys from position i: the
\* first aircraft with a locked position, 0 (nil) when there is none
RECURSIVE FirstLocked(_, _)
FirstLocked(icaos, i) ==
    IF i > Len(icaos) THEN 0
    ELSE IF PositionLocked(heap[aircraft[icaos[i]]]) THEN aircraft[icaos[i]]
    ELSE FirstLocked(icaos, i + 1)

\* GetFirstWithPosition's result when the range visits the keys in order o
GetFirstWithPositionOf(o) == FirstLocked(SortStrings(o), 1)

\* GetFirstWithPosition
GetFirstWithPosition ==
    /\ mu = "free"
    /\ \E o \in Orders(DOMAIN aircraft) : first' = GetFirstWithPositionOf(o)
    /\ lastOp' = "GetFirstWithPosition"
    /\ UNCHANGED <<heap, hist, after, aircraft, mu, timeout, removed, upc, uac,
                   dirty>>
    /\ UNCHANGED <<mapFeatures, uiVars, projs, cvs, mapView, renderer, writes, req>>
    /\ UNCHANGED <<renderVars, now, nextTick, clientVars, appVars>>

\* PruneStale's loop over the keys in order o from position i: the map and
\* the count of removals it ends with
RECURSIVE PruneLoop(_, _, _, _)
PruneLoop(o, i, m, n) ==
    IF i > Len(o) THEN <<m, n>>
    ELSE IF IsStale(heap[m[o[i]]], now)
         THEN PruneLoop(o, i + 1, [k \in DOMAIN m \ {o[i]} |-> m[k]], n + 1)
         ELSE PruneLoop(o, i + 1, m, n)

\* PruneStale
PruneStale ==
    /\ mu = "free"
    /\ \E o \in Orders(DOMAIN aircraft) :
          /\ aircraft' = PruneLoop(o, 1, aircraft, 0)[1]
          /\ removed' = PruneLoop(o, 1, aircraft, 0)[2]
    /\ dirty' = TRUE
    /\ lastOp' = "PruneStale"
    /\ UNCHANGED <<heap, hist, after, mu, timeout, upc, uac>>

\* a call of PruneStale by itself
CallPruneStale ==
    /\ PruneStale
    /\ UNCHANGED <<renderVars, viewVars, now, nextTick, clientVars, appVars>>

\* the render loop reads the fields of an aircraft of the slice it holds
\* (ListView.Draw, MapRenderer.RenderAircraft); it holds no lock
Observe(i) ==
    /\ i \in 1..Len(snap)
    /\ seen' = <<snap[i], heap[snap[i]]>>
    /\ lastOp' = "Observe"
    /\ UNCHANGED <<heap, hist, after, aircraft, mu, timeout, removed, upc, uac,
                 dirty>>
    /\ UNCHANGED <<snap, viewVars, now, nextTick, clientVars, appVars>>

\* time passes
Tick(t) ==
    /\ t > now
    /\ now' = t
    /\ lastOp' = "Tick"
    /\ UNCHANGED <<heap, hist, after, aircraft, mu, timeout, removed, upc, uac,
                 dirty>>
    /\ UNCHANGED <<renderVars, viewVars, nextTick, clientVars, appVars>>

---------------------------------------------------------------------------
(* geo.Projection (unnamed/part_005).  Latitudes and longitudes are in     *)
(* tenths of a degree, radii in hundredths of a mile, aspect ratios in     *)
(* tenths, scales in thousandths of a cell per degree; a quotient of two   *)
(* floats is the quotient of the integers, rounded towards zero.           *)

Abs(x) == IF x < 0 THEN 0 - x ELSE x

Quot(a, b) ==
    IF (a >= 0) = (b > 0) THEN Abs(a) \div Abs(b) ELSE 0 - (Abs(a) \div Abs(b))

\* 1000 * math.Cos(lat * math.Pi / 180), by the series 1 - x^2/2 + x^4/24
\* - x^6/720 with x in thousandths of a radian
Cos1000(lat) ==
    LET x == Quot(lat * 17453, 10000)
        x2 == Quot(x * x, 1000)
        x4 == Quot(x2 * x2, 1000)
        x6 == Quot(x4 * x2, 1000)
    IN  1000 - Quot(x2, 2) + Quot(x4, 24) - Quot(x6, 720)

\* Projection.calculateScale
CalculateScale(p) ==
    LET scaleY == Quot(69 * p.screenHeight * p.aspectRatio * 5000,
                       p.radiusMiles)
        scaleX == Quot(69 * p.screenWidth * Cos1000(p.centerLat) * 50,
                       p.radiusMiles)
    IN  IF scaleX < scaleY
        THEN [p EXCEPT !.scaleX = scaleX,
                       !.scaleY = Quot(scaleX * 10, p.aspectRatio)]
        ELSE [p EXCEPT !.scaleX = Quot(scaleY * p.aspectRatio, 10),
                       !.scaleY = scaleY]

\* NewProjection
NewProjection(centerLat, centerLon, radiusMiles, screenWidth, screenHeight, aspectRatio) ==
    CalculateScale([centerLat |-> centerLat, centerLon |-> centerLon,
                    radiusMiles |-> radiusMiles, screenWidth |-> screenWidth,
                    screenHeight |-> screenHeight,
                    aspectRatio |-> aspectRatio, scaleX |-> 0, scaleY |-> 0])

\* Projection.UpdateCenter
UpdateCenter(p, lat, lon) ==
    CalculateScale([p EXCEPT !.centerLat = lat, !.centerLon = lon])

\* Projection.UpdateDimensions
ProjectionUpdateDimensions(p, width, height) ==
    CalculateScale([p EXCEPT !.screenWidth = width, !.screenHeight = height])

---------------------------------------------------------------------------
(* render.Canvas (unnamed/part_004) *)

\* tcell.StyleDefault, and a blank cell
StyleDefault == [fg |-> "default", bold |-> FALSE, reverse |-> FALSE]
BlankCell == [Char |-> 32, Style |-> StyleDefault]

\* NewCanvas
NewCanvas(width, height) ==
    [width |-> width, height |-> height,
     cells |-> [c \in (0..(width - 1)) \X (0..(height - 1)) |-> BlankCell]]


\* Canvas.Set
CanvasSetMutant(c, x, y, char, style) ==
    IF c.width > 0 /\ c.height > 0
    THEN [c EXCEPT !.cells[<<IF x < 0 THEN 0
                             ELSE IF x >= c.width THEN c.width - 1 ELSE x,
                             IF y < 0 THEN 0
                             ELSE IF y >= c.height THEN c.height - 1 ELSE y>>]
                       = [Char |-> char, Style |-> style]]
    ELSE c
CanvasSet(c, x, y, char, style) ==
    IF x >= 0 /\ x < c.width /\ y >= 0 /\ y < c.height
    THEN [c EXCEPT !.cells[<<x, y>>] = [Char |-> char, Style |-> style]]
    ELSE c

\* Canvas.Clear
CanvasClear(c) == [c EXCEPT !.cells = [k \in DOMAIN c.cells |-> BlankCell]]

\* the styles of the map (Style definitions)
Style(fg, bold, reverse) == [fg |-> fg, bold |-> bold, reverse |-> reverse]
StyleStateBorder == Style("DarkGray", FALSE, FALSE)
StyleHighway == Style("Yellow", FALSE, FALSE)
StyleRiver == Style("DarkCyan", FALSE, FALSE)
StyleCoastline == Style("DarkBlue", FALSE, FALSE)
StyleCity == Style("White", FALSE, FALSE)
StyleAirport == Style("Orange", FALSE, FALSE)
StyleAircraft == Style("Green", TRUE, FALSE)
StyleSelected == Style("Green", TRUE, TRUE)
StyleLabel == Style("White", FALSE, FALSE)

\* GetStyleForFeature
GetStyleForFeature(ftype) ==
    CASE ftype = "StateBorder" -> StyleStateBorder
      [] ftype = "Highway" -> StyleHighway
      [] ftype = "River" -> StyleRiver
      [] ftype = "Coastline" -> StyleCoastline
      [] ftype = "City" -> StyleCity
      [] ftype = "Airport" -> StyleAirport
      [] OTHER -> StyleDefault

\* GetCharForFeature: '-', '=', '~', '-', and U+00B7 for the rest
GetCharForFeature(ftype) ==
    CASE ftype = "StateBorder" -> 45
      [] ftype = "Highway" -> 61
      [] ftype = "River" -> 126
      [] ftype = "Coastline" -> 45
      [] OTHER -> 183

\* A drawing in progress: the canvas, and the history of the Set calls made
\* on it with the layer that made each; panic is set by a nil dereference
Drawing(c) == [cv |-> c, log |-> <<>>, panic |-> FALSE]

\* Canvas.Set called while layer is drawn
SetCell(st, layer, x, y, char, style) ==
    [st EXCEPT !.cv = CanvasSet(@, x, y, char, style),
               !.log = Append(@, [layer |-> layer, x |-> x, y |-> y,
                                  cell |-> [Char |-> char, Style |-> style]])]

\* A Go string is UTF-8: the bytes a character takes, and len(text)
Utf8Len(char) ==
    IF char < 128 THEN 1
    ELSE IF char < 2048 THEN 2
    ELSE IF char < 65536 THEN 3
    ELSE 4

RECURSIVE ByteLen(_)
ByteLen(text) ==
    IF text = <<>> THEN 0
    ELSE ByteLen(SubSeq(text, 1, Len(text) - 1)) + Utf8Len(text[Len(text)])

\* Canvas.DrawText, from the i-th character of text on: `for i, char :=
\* range text` gives the offset of the character's first byte, and the
\* character goes to column x plus that offset
RECURSIVE DrawTextFrom(_, _, _, _, _, _, _)
DrawTextFrom(st, layer, x, y, text, style, i) ==
    IF i > Len(text) THEN st
    ELSE DrawTextFrom(SetCell(st, layer,
                              x + ByteLen(SubSeq(text, 1, i - 1)), y,
                              text[i], style),
                      layer, x, y, text, style, i + 1)

DrawText(st, layer, x, y, text, style) ==
    DrawTextFrom(st, layer, x, y, text, style, 1)

---------------------------------------------------------------------------
(* geo features and bounds (internal/geo/features.go, unnamed/part_005) *)

\* NewLineFeature and NewPointFeature; a nil Point is <<>>
NewLineFeature(ftype, points) ==
    [Type |-> ftype, Points |-> points, Point |-> <<>>, Name |-> EmptyString]
NewPointFeature(ftype, point, name) ==
    [Type |-> ftype, Points |-> <<>>, Point |-> <<point>>, Name |-> name]

LatLon(lat, lon) == [Lat |-> lat, Lon |-> lon]

\* Feature.IsPoint, Feature.IsLine
IsPoint(f) == f.Point # <<>>
IsLine(f) == Len(f.Points) > 0

\* Projection.Project: int() rounds towards zero
Project(p, lat, lon) ==
    [X |-> Quot((lon - p.centerLon) * p.scaleX, 10000)
              + Quot(p.screenWidth, 2),
     Y |-> Quot((0 - (lat - p.centerLat)) * p.scaleY, 10000)
              + Quot(p.screenHeight, 2)]

\* Projection.Unproject, for scales that are not 0
Unproject(p, x, y) ==
    [Lat |-> p.centerLat
                + Quot((0 - (y - Quot(p.screenHeight, 2))) * 10000, p.scaleY),
     Lon |-> p.centerLon
                + Quot((x - Quot(p.screenWidth, 2)) * 10000, p.scaleX)]

Min(a, b) == IF a < b THEN a ELSE b
Max(a, b) == IF a > b THEN a ELSE b

\* Projection.GetBounds.  The scales are 0 exactly when the grid has no
\* column or no row; the quotients of Unproject are then NaN on one axis at
\* least, and so are the bounds (math.Min and math.Max return NaN).
GetBounds(p) ==
    IF p.scaleX = 0 \/ p.scaleY = 0
    THEN [NaN |-> TRUE, MinLat |-> 0, MaxLat |-> 0, MinLon |-> 0, MaxLon |-> 0]
    ELSE [NaN |-> FALSE,
          MinLat |-> Min(Unproject(p, 0, 0).Lat,
                         Unproject(p, p.screenWidth - 1,
                                   p.screenHeight - 1).Lat),
          MaxLat |-> Max(Unproject(p, 0, 0).Lat,
                         Unproject(p, p.screenWidth - 1,
                                   p.screenHeight - 1).Lat),
          MinLon |-> Min(Unproject(p, 0, 0).Lon,
                         Unproject(p, p.screenWidth - 1,
                                   p.screenHeight - 1).Lon),
          MaxLon |-> Max(Unproject(p, 0, 0).Lon,
                         Unproject(p, p.screenWidth - 1,
                                   p.screenHeight - 1).Lon)]

\* Bounds.Contains: every comparison with NaN is false
Contains(b, lat, lon) ==
    /\ ~b.NaN
    /\ lat >= b.MinLat /\ lat <= b.MaxLat
    /\ lon >= b.MinLon /\ lon <= b.MaxLon

\* FilterByBounds: a point feature passes when its point is inside, a line
\* feature when one of its points is
PassesMutant(f, bounds) ==
    IF IsPoint(f) THEN Contains(bounds, f.Point[1].Lat, f.Point[1].Lon)
    ELSE /\ IsLine(f)
         /\ Contains(bounds, f.Points[1].Lat, f.Points[1].Lon)
Passes(f, bounds) ==
    IF IsPoint(f) THEN Contains(bounds, f.Point[1].Lat, f.Point[1].Lon)
    ELSE /\ IsLine(f)
         /\ \E i \in 1..Len(f.Points) :
               Contains(bounds, f.Points[i].Lat, f.Points[i].Lon)

RECURSIVE FilterByBounds(_, _)
FilterByBounds(features, bounds) ==
    IF features = <<>> THEN <<>>
    ELSE IF Passes(features[Len(features)], bounds)
         THEN Append(FilterByBounds(SubSeq(features, 1, Len(features) - 1),
                                    bounds),
                     features[Len(features)])
         ELSE FilterByBounds(SubSeq(features, 1, Len(features) - 1), bounds)

\* the features main loads: a coastline along a parallel, a river along a
\* meridian, a state border, a highway across them, the cities "Ab" (in
\* view) and "Zz" (out of view), the airport "K"
Features ==
    [Coastline |-> <<NewLineFeature("Coastline",
                        <<LatLon(420, 0 - 1010), LatLon(420, 0 - 970)>>)>>,
     River |-> <<NewLineFeature("River",
                        <<LatLon(425, 0 - 990), LatLon(385, 0 - 990)>>)>>,
     StateBorder |-> <<NewLineFeature("StateBorder",
                        <<LatLon(390, 0 - 1010), LatLon(390, 0 - 970)>>)>>,
     Highway |-> <<NewLineFeature("Highway",
                        <<LatLon(420, 0 - 1010), LatLon(385, 0 - 965)>>)>>,
     City |-> <<NewPointFeature("City", LatLon(400, 0 - 1000), <<65, 98>>),
                NewPointFeature("City", LatLon(300, 0 - 800), <<90, 122>>)>>,
     Airport |-> <<NewPointFeature("Airport", LatLon(410, 0 - 975), <<75>>)>>]

---------------------------------------------------------------------------
(* render.MapRenderer (unnamed/part_003) *)

\* MapRenderer.DrawLine: the loop of Bresenham's algorithm
RECURSIVE DrawLineLoop(_, _, _, _, _, _, _, _, _, _, _, _, _)
DrawLineLoop(st, layer, x0, y0, x1, y1, dx, dy, sx, sy, err, char, style) ==
    LET drawn == SetCell(st, layer, x0, y0, char, style)
        e2 == 2 * err
        stepX == e2 > 0 - dy
        stepY == e2 < dx
    IN  IF x0 = x1 /\ y0 = y1 THEN drawn
        ELSE DrawLineLoop(drawn, layer,
                          IF stepX THEN x0 + sx ELSE x0,
                          IF stepY THEN y0 + sy ELSE y0,
                          x1, y1, dx, dy, sx, sy,
                          err - (IF stepX THEN dy ELSE 0)
                              + (IF stepY THEN dx ELSE 0),
                          char, style)

\* MapRenderer.DrawLine
DrawLineMutant(st, layer, x0, y0, x1, y1, char, style) ==
    DrawLineLoop(
        DrawLineLoop(st, layer, x0, y0, x1, y0, Abs(x1 - x0), 0,
                     IF x0 < x1 THEN 1 ELSE 0 - 1, 0 - 1, Abs(x1 - x0),
                     char, style),
        layer, x1, y0, x1, y1, 0, Abs(y1 - y0), 0 - 1,
        IF y0 < y1 THEN 1 ELSE 0 - 1, 0 - Abs(y1 - y0), char, style)
DrawLine(st, layer, x0, y0, x1, y1, char, style) ==
    DrawLineLoop(st, layer, x0, y0, x1, y1, Abs(x1 - x0), Abs(y1 - y0),
                 IF x0 < x1 THEN 1 ELSE 0 - 1, IF y0 < y1 THEN 1 ELSE 0 - 1,
                 Abs(x1 - x0) - Abs(y1 - y0), char, style)

\* RenderFeature on a line feature: the segments from the i-th point on
RECURSIVE RenderSegments(_, _, _, _)
RenderSegments(st, p, feature, i) ==
    IF i > Len(feature.Points) - 1 THEN st
    ELSE RenderSegments(
             DrawLine(st, feature.Type,
                      Project(p, feature.Points[i].Lat,
                              feature.Points[i].Lon).X,
                      Project(p, feature.Points[i].Lat,
                              feature.Points[i].Lon).Y,
                      Project(p, feature.Points[i + 1].Lat,
                              feature.Points[i + 1].Lon).X,
                      Project(p, feature.Points[i + 1].Lat,
                              feature.Points[i + 1].Lon).Y,
                      GetCharForFeature(feature.Type),
                      GetStyleForFeature(feature.Type)),
             p, feature, i + 1)

\* MapRenderer.RenderFeature: a point feature is drawn as U+25CF and its
\* label, a line feature segment by segment
RenderFeature(st, p, feature) ==
    IF IsPoint(feature)
    THEN LET point == Project(p, feature.Point[1].Lat, feature.Point[1].Lon)
             dot == SetCell(st, feature.Type, point.X, point.Y, 9679,
                            GetStyleForFeature(feature.Type))
         IN  IF feature.Name # EmptyString
                /\ point.X < st.cv.width - ByteLen(feature.Name) - 1
             THEN DrawText(dot, feature.Type, point.X + 1, point.Y,
                           feature.Name, StyleLabel)
             ELSE dot
    ELSE IF IsLine(feature) THEN RenderSegments(st, p, feature, 1)
    ELSE st

\* renderFeatureType: the loop over the visible features, from the i-th on
RECURSIVE RenderFeatures(_, _, _, _)
RenderFeatures(st, p, visible, i) ==
    IF i > Len(visible) THEN st
    ELSE RenderFeatures(RenderFeature(st, p, visible[i]), p, visible, i + 1)

\* MapRenderer.renderFeatureType
RenderFeatureType(st, p, features, ftype, bounds) ==
    IF ftype \notin DOMAIN features THEN st
    ELSE RenderFeatures(st, p, FilterByBounds(features[ftype], bounds), 1)

\* renderCitiesAndAirports: a city is skipped when an airport is on its row
\* within 5 columns, or within 1 row and 3 columns
SkipCityNarrowMutant(point, airportPositions) ==
    \E i \in 1..Len(airportPositions) :
        /\ Abs(airportPositions[i].Y - point.Y) <= 1
        /\ Abs(airportPositions[i].X - point.X) <= 3
SkipCityWideMutant(point, airportPositions) ==
    \E i \in 1..Len(airportPositions) :
        /\ Abs(airportPositions[i].Y - point.Y) <= 1
        /\ Abs(airportPositions[i].X - point.X) <= 5
SkipCity(point, airportPositions) ==
    \E i \in 1..Len(airportPositions) :
        \/ /\ airportPositions[i].Y = point.Y
           /\ Abs(airportPositions[i].X - point.X) <= 5
        \/ /\ Abs(airportPositions[i].Y - point.Y) <= 1
           /\ Abs(airportPositions[i].X - point.X) <= 3

\* renderCitiesAndAirports: the loop over the cities, from the i-th on
RECURSIVE RenderCities(_, _, _, _, _)
RenderCities(st, p, cities, airportPositions, i) ==
    IF i > Len(cities) THEN st
    ELSE LET city == cities[i]
             point == Project(p, city.Point[1].Lat, city.Point[1].Lon)
         IN  IF city.Point = <<>> \/ city.Name = EmptyString
             THEN RenderCities(st, p, cities, airportPositions, i + 1)
             ELSE IF SkipCity(point, airportPositions)
                     \/ ~(point.X < st.cv.width - ByteLen(city.Name) - 1)
                  THEN RenderCities(st, p, cities, airportPositions, i + 1)
                  ELSE RenderCities(DrawText(st, "Places", point.X, point.Y,
                                             city.Name, StyleLabel),
                                    p, cities, airportPositions, i + 1)

\* renderCitiesAndAirports: airports are drawn as '@' (RenderFeature draws
\* a point feature as U+25CF)
AirportSymbolMutant == GetCharForFeature("Airport")
AirportSymbol == 64

\* renderCitiesAndAirports: the loop over the airports, from the i-th on
RECURSIVE RenderAirports(_, _, _, _)
RenderAirports(st, p, airports, i) ==
    IF i > Len(airports) THEN st
    ELSE IF airports[i].Point = <<>>
         THEN RenderAirports(st, p, airports, i + 1)
         ELSE LET airport == airports[i]
                  point == Project(p, airport.Point[1].Lat,
                                   airport.Point[1].Lon)
                  at == SetCell(st, "Places", point.X, point.Y,
                                AirportSymbol, StyleAirport)
              IN  RenderAirports(
                      IF airport.Name # EmptyString
                         /\ point.X < st.cv.width - ByteLen(airport.Name) - 1
                      THEN DrawText(at, "Places", point.X + 1, point.Y,
                                    airport.Name, StyleLabel)
                      ELSE at,
                      p, airports, i + 1)

\* the features of a type that are in view, none when the type is missing
Visible(features, ftype, bounds) ==
    IF ftype \in DOMAIN features THEN FilterByBounds(features[ftype], bounds)
    ELSE <<>>

\* the screen positions of the airports that have a point
AirportPositions(p, airports) ==
    [i \in 1..Len(SelectSeq(airports, IsPoint)) |->
        Project(p, SelectSeq(airports, IsPoint)[i].Point[1].Lat,
                SelectSeq(airports, IsPoint)[i].Point[1].Lon)]

\* MapRenderer.renderCitiesAndAirports
RenderCitiesAndAirports(st, p, features, bounds) ==
    RenderAirports(
        RenderCities(st, p, Visible(features, "City", bounds),
                     AirportPositions(p, Visible(features, "Airport", bounds)),
                     1),
        p, Visible(features, "Airport", bounds), 1)

\* MapRenderer.RenderMap
RenderMap(st, p, features) ==
    LET bounds == GetBounds(p) IN
    RenderCitiesAndAirports(
        RenderFeatureType(
            RenderFeatureType(
                RenderFeatureType(
                    RenderFeatureType(st, p, features, "Coastline", bounds),
                    p, features, "River", bounds),
                p, features, "StateBorder", bounds),
            p, features, "Highway", bounds),
        p, features, bounds)

\* RenderAircraft: the selected style for the aircraft whose ICAO is the
\* selected one, the aircraft style for the others
AircraftStyleMutant(ac, selectedICAO) ==
    IF selectedICAO # EmptyString THEN StyleSelected ELSE StyleAircraft
AircraftStyle(ac, selectedICAO) ==
    IF ac.ICAO = selectedICAO THEN StyleSelected ELSE StyleAircraft

\* MapRenderer.RenderAircraft: the loop over the slice, from the i-th on;
\* *ac.Latitude and *ac.Longitude panic on a nil pointer
RECURSIVE RenderAircraftFrom(_, _, _, _, _)
RenderAircraftFrom(st, p, acs, selectedICAO, i) ==
    IF i > Len(acs) THEN st
    ELSE IF ~PositionLocked(acs[i])
         THEN RenderAircraftFrom(st, p, acs, selectedICAO, i + 1)
         ELSE IF acs[i].Latitude = NilF \/ acs[i].Longitude = NilF
              THEN [st EXCEPT !.panic = TRUE]
              ELSE RenderAircraftFrom(
                       SetCell(st, "Aircraft",
                               Project(p, acs[i].Latitude[1],
                                       acs[i].Longitude[1]).X,
                               Project(p, acs[i].Latitude[1],
                                       acs[i].Longitude[1]).Y,
                               CardinalDirection(acs[i]),
                               AircraftStyle(acs[i], selectedICAO)),
                       p, acs, selectedICAO, i + 1)

RenderAircraft(st, p, acs, selectedICAO) ==
    RenderAircraftFrom(st, p, acs, selectedICAO, 1)

\* MapView.Draw's layers in the order it calls them, on canvas c
DrawLayersMutant(c, p, features, acs, selectedICAO) ==
    RenderMap(RenderAircraft(Drawing(c), p, acs, selectedICAO), p, features)
DrawLayers(c, p, features, acs, selectedICAO) ==
    RenderAircraft(RenderMap(Drawing(c), p, features), p, acs, selectedICAO)

---------------------------------------------------------------------------
(* ui.MapView (unnamed/part_002) *)

\* the default centre: 39.8283, -98.5795
DefaultCenterLat == 398
DefaultCenterLon == 0 - 986

\* a request made to the view: the method, the grid size and the radius it
\* asks for (or leaves), and the selected ICAO it passes
Request(op, width, height, radiusMiles, selectedICAO) ==
    [op |-> op, width |-> width, height |-> height,
     radiusMiles |-> radiusMiles, selectedICAO |-> selectedICAO]

\* NewMapView (and NewMapRenderer), as the state it builds
NewMapView(width, height, fs, radiusMiles, aspectRatio) ==
    /\ mapFeatures = fs
    /\ projs = <<NewProjection(DefaultCenterLat, DefaultCenterLon,
                               radiusMiles, width, height, aspectRatio)>>
    /\ cvs = <<NewCanvas(width, height)>>
    /\ mapView = [projection |-> 1, canvas |-> 1, centerSet |-> FALSE,
                  width |-> width, height |-> height,
                  radiusMiles |-> radiusMiles, aspectRatio |-> aspectRatio]
    /\ renderer = [projection |-> 1, canvas |-> 1]
    /\ writes = <<>>
    /\ req = Request("NewMapView", width, height, radiusMiles, EmptyString)

\* MapView.UpdateDimensions: what it does to the view, the projection, the
\* canvases and the renderer
MapViewResizedMutant(width, height) ==
    /\ Len(projs) + Len(cvs) < MaxViewObjects
    /\ projs' = [projs EXCEPT ![mapView.projection] =
                                 ProjectionUpdateDimensions(@, width, height)]
    /\ cvs' = Append(cvs, NewCanvas(width, height))
    /\ mapView' = [mapView EXCEPT !.width = width, !.height = height,
                                  !.canvas = Len(cvs) + 1]
    /\ renderer' = renderer
    /\ req' = Request("UpdateDimensions", width, height, mapView.radiusMiles,
                      EmptyString)
    /\ lastOp' = "UpdateDimensions"
MapViewResized(width, height) ==
    /\ Len(projs) + Len(cvs) < MaxViewObjects
    /\ projs' = [projs EXCEPT ![mapView.projection] =
                                 ProjectionUpdateDimensions(@, width, height)]
    /\ cvs' = Append(cvs, NewCanvas(width, height))
    /\ mapView' = [mapView EXCEPT !.width = width, !.height = height,
                                  !.canvas = Len(cvs) + 1]
    /\ renderer' = [renderer EXCEPT !.canvas = Len(cvs) + 1]
    /\ req' = Request("UpdateDimensions", width, height, mapView.radiusMiles,
                      EmptyString)
    /\ lastOp' = "UpdateDimensions"

\* MapView.UpdateDimensions, called by itself
MapViewUpdateDimensions(width, height) ==
    /\ MapViewResized(width, height)
    /\ UNCHANGED <<heap, hist, after, aircraft, mu, timeout, removed, upc, uac,
                   dirty>>
    /\ UNCHANGED <<renderVars, first, mapFeatures, uiVars, writes, now,
                   nextTick, clientVars, appVars>>

\* MapView.SetRadius
SetRadius(radiusMiles) ==
    /\ Len(projs) + Len(cvs) < MaxViewObjects
    /\ projs' = Append(projs,
                       NewProjection(projs[mapView.projection].centerLat,
                                     projs[mapView.projection].centerLon,
                                     radiusMiles, mapView.width,
                                     mapView.height, mapView.aspectRatio))
    /\ mapView' = [mapView EXCEPT !.radiusMiles = radiusMiles,
                                  !.projection = Len(projs) + 1]
    /\ renderer' = [renderer EXCEPT !.projection = Len(projs) + 1]
    /\ req' = Request("SetRadius", mapView.width, mapView.height,
                      radiusMiles, EmptyString)
    /\ UNCHANGED <<heap, hist, after, aircraft, mu, timeout, removed, upc, uac,
                   dirty>>
    /\ UNCHANGED <<renderVars, first, mapFeatures, uiVars, cvs, writes, now, nextTick, clientVars,
                   appVars>>

\* the aircraft of the slice the render loop holds, as they are now
Snapshot == [i \in 1..Len(snap) |-> heap[snap[i]]]

\* MapView.Draw (called by App.render with the slice GetAll returned): the
\* view's canvas is cleared, the renderer draws the map and the aircraft
\* on its canvas with its projection
Draw(selectedICAO) ==
    LET cleared == [cvs EXCEPT ![mapView.canvas] = CanvasClear(@)]
        st == DrawLayers(cleared[renderer.canvas], projs[renderer.projection],
                         mapFeatures, Snapshot, selectedICAO)
    IN  /\ cvs' = [cleared EXCEPT ![renderer.canvas] = st.cv]
        /\ writes' = st.log
        /\ panicked' = IF st.panic THEN "nil pointer dereference"
                       ELSE panicked
        /\ req' = Request("Draw", mapView.width, mapView.height,
                          mapView.radiusMiles, selectedICAO)
        /\ lastOp' = "Draw"
        /\ UNCHANGED <<heap, hist, after, aircraft, mu, timeout, removed, upc,
                       uac, dirty>>
        /\ UNCHANGED <<renderVars, first, mapFeatures, uiVars, projs, mapView, renderer, now,
                       nextTick>>
        /\ UNCHANGED <<conn, connCloses, kills, isLocalCLI, linesLeft, scanned,
                       msgChan, msgClosed, errChan, errClosed, doneClosed,
                       closeOnce, rlpc, rlAc>>
        /\ UNCHANGED appVars

\* the view and the projections it refers to, as the centring methods
\* read and leave them
View == [projs |-> projs, mapView |-> mapView]

\* `m.projection.UpdateCenter(*ac.Latitude, *ac.Longitude)` and
\* `m.centerSet = true`
CenterAt(v, ac) ==
    [projs |-> [v.projs EXCEPT ![v.mapView.projection] =
                                  UpdateCenter(@, ac.Latitude[1],
                                               ac.Longitude[1])],
     mapView |-> [v.mapView EXCEPT !.centerSet = TRUE]]

\* SetCenterFromFirstAircraft's loop from the i-th aircraft of the slice:
\* the first one with a locked position, 0 when there is none
RECURSIVE FirstLockedIn(_, _)
FirstLockedIn(acs, i) ==
    IF i > Len(acs) THEN 0
    ELSE IF PositionLocked(heap[acs[i]]) THEN acs[i]
    ELSE FirstLockedIn(acs, i + 1)

\* MapView.SetCenterFromFirstAircraft
SetCenterFromFirstAircraftMutant(v, acs) ==
    IF FirstLockedIn(acs, 1) = 0 THEN v
    ELSE CenterAt(v, heap[FirstLockedIn(acs, 1)])
SetCenterFromFirstAircraft(v, acs) ==
    IF v.mapView.centerSet \/ FirstLockedIn(acs, 1) = 0 THEN v
    ELSE CenterAt(v, heap[FirstLockedIn(acs, 1)])

\* MapView.CenterOnAircraft; ac is a reference, 0 for nil
CenterOnAircraft(v, ac) ==
    IF ac = 0 \/ ~PositionLocked(heap[ac]) THEN v
    ELSE CenterAt(v, heap[ac])

\* the zoom range: 10 to 1000 miles
MinRadius == 1000
MaxRadius == 100000

\* MapView.ZoomIn: 0.75 times the radius, not below 10 miles
ZoomIn ==
    /\ SetRadius(IF Quot(mapView.radiusMiles * 75, 100) < MinRadius
                 THEN MinRadius
                 ELSE Quot(mapView.radiusMiles * 75, 100))
    /\ lastOp' = "ZoomIn"

\* MapView.ZoomOut: 1.33 times the radius, not above 1000 miles
ZoomOut ==
    /\ SetRadius(IF Quot(mapView.radiusMiles * 133, 100) > MaxRadius
                 THEN MaxRadius
                 ELSE Quot(mapView.radiusMiles * 133, 100))
    /\ lastOp' = "ZoomOut"

---------------------------------------------------------------------------
(* ui.ListView (unnamed/part_002), ui.DetailView (unnamed/part_001) *)

\* NewListView: maxVisible is height - 2, and 1 at least
NewListView(x, y, width, height) ==
    [aircraft |-> <<>>, selectedIndex |-> 0, scrollOffset |-> 0,
     maxVisible |-> IF height - 2 < 1 THEN 1 ELSE height - 2,
     x |-> x, y |-> y, width |-> width, height |-> height]

\* ListView.adjustScroll: its three statements in turn
AdjustScroll(l) ==
    LET s1 == IF l.selectedIndex >= l.scrollOffset + l.maxVisible
              THEN l.selectedIndex - l.maxVisible + 1
              ELSE l.scrollOffset
        s2 == IF l.selectedIndex < s1 THEN l.selectedIndex ELSE s1
    IN  [l EXCEPT !.scrollOffset = IF s2 < 0 THEN 0 ELSE s2]

\* ListView.Update: the index is brought below the length of the new
\* slice, then to 0 at least
ListViewUpdateMutant(l, acs) ==
    AdjustScroll([l EXCEPT !.aircraft = acs])
ListViewUpdate(l, acs) ==
    LET s1 == IF l.selectedIndex >= Len(acs) THEN Len(acs) - 1
              ELSE l.selectedIndex
    IN  AdjustScroll([l EXCEPT !.aircraft = acs,
                               !.selectedIndex = IF s1 < 0 THEN 0 ELSE s1])

\* ListView.SelectNext, ListView.SelectPrev
SelectNextMutant(l) ==
    AdjustScroll([l EXCEPT !.selectedIndex = @ + 1])
SelectNext(l) ==
    IF l.selectedIndex < Len(l.aircraft) - 1
    THEN AdjustScroll([l EXCEPT !.selectedIndex = @ + 1])
    ELSE l
SelectPrev(l) ==
    IF l.selectedIndex > 0
    THEN AdjustScroll([l EXCEPT !.selectedIndex = @ - 1])
    ELSE l

\* ListView.GetSelected: the reference at selectedIndex (slices count from
\* 0, sequences from 1), 0 for nil
GetSelected(l) ==
    IF l.selectedIndex >= 0 /\ l.selectedIndex < Len(l.aircraft)
    THEN l.aircraft[l.selectedIndex + 1]
    ELSE 0

\* ListView.UpdateDimensions
ListViewUpdateDimensions(l, x, y, width, height) ==
    AdjustScroll([l EXCEPT !.x = x, !.y = y, !.width = width,
                           !.height = height,
                           !.maxVisible = IF height - 2 < 1 THEN 1
                                          ELSE height - 2])

\* NewDetailView, DetailView.SetAircraft, DetailView.UpdateDimensions
NewDetailView(x, y, width, height) ==
    [aircraft |-> 0, x |-> x, y |-> y, width |-> width, height |-> height]
SetAircraft(d, ac) == [d EXCEPT !.aircraft = ac]
DetailViewUpdateDimensions(d, x, y, width, height) ==
    [d EXCEPT !.x = x, !.y = y, !.width = width, !.height = height]

\* DrawLine is not running
NoLine ==
    [pc |-> "idle", x0 |-> 0, y0 |-> 0, x1 |-> 0, y1 |-> 0, x |-> 0, y |-> 0,
     dx |-> 0, dy |-> 0, sx |-> 0, sy |-> 0, err |-> 0, n |-> 0]

\* NewApp on a screen of width x height cells: the map view, the list
\* view (30 x 12) and the detail view (50 x 15) in the lower left corner
NewApp(width, height, fs, radiusMiles, aspectRatio) ==
    /\ NewMapView(width, height, fs, radiusMiles, aspectRatio)
    /\ listView = NewListView(0, height - 12, 30, 12)
    /\ detailView = NewDetailView(0, height - 15, 50, 15)
    /\ currentView = "Map"
    /\ quit = "open"
    /\ dl = NoLine

---------------------------------------------------------------------------
(* StartPruning (unnamed/part_006): the pruning goroutine *)

\* the interval App.Run passes to StartPruning: 10*time.Second
PruneIntervalMutant == 2 * 10
PruneInterval == 10

\* `case <-ticker.C: t.PruneStale()`
PruneTick ==
    /\ prpc = "wait"
    /\ now = nextTick
    /\ PruneStale
    /\ nextTick' = nextTick + PruneInterval
    /\ UNCHANGED <<renderVars, viewVars, now, clientVars, appVars>>

\* `case <-ctx.Done(): return`
PrunerExit ==
    /\ prpc = "wait"
    /\ cancelled
    /\ prpc' = "exited"
    /\ UNCHANGED <<trackerVars, renderVars, viewVars, now, nextTick, clientVars>>
    /\ UNCHANGED <<apc, cpc, cancelled, rmpc>>

\* a second passes, unless the ticker is due
TimedTick(max) ==
    /\ now < nextTick
    /\ now < max
    /\ Tick(now + 1)

---------------------------------------------------------------------------
(* SBSParser (internal/adsb/aircraft.go).  A line is the sequence of its   *)
(* comma-separated fields, each a string of character codes.              *)

\* the characters strings.TrimSpace removes: tab, LF, VT, FF, CR, space
WhiteSpace == {9, 10, 11, 12, 13, 32}

RECURSIVE TrimLeft(_)
TrimLeft(s) ==
    IF s # <<>> /\ Head(s) \in WhiteSpace THEN TrimLeft(Tail(s)) ELSE s

RECURSIVE TrimRight(_)
TrimRight(s) ==
    IF s # <<>> /\ s[Len(s)] \in WhiteSpace
    THEN TrimRight(SubSeq(s, 1, Len(s) - 1))
    ELSE s

\* strings.TrimSpace
TrimSpace(s) == TrimRight(TrimLeft(s))

\* strings.TrimSpace(line) on a line given by its fields: the first field
\* loses its leading white space and the last its trailing white space
TrimLine(line) ==
    [i \in 1..Len(line) |->
        IF i = 1 /\ i = Len(line) THEN TrimSpace(line[i])
        ELSE IF i = 1 THEN TrimLeft(line[i])
        ELSE IF i = Len(line) THEN TrimRight(line[i])
        ELSE line[i]]

\* a non-empty string of decimal digits, and its value
AllDigits(s) == s # <<>> /\ \A i \in 1..Len(s) : s[i] \in 48..57

RECURSIVE DigitsValue(_)
DigitsValue(s) ==
    IF s = <<>> THEN 0
    ELSE 10 * DigitsValue(SubSeq(s, 1, Len(s) - 1)) + (s[Len(s)] - 48)

\* a string without its sign, and whether the sign is '-'
Unsigned(s) == IF s # <<>> /\ Head(s) \in {43, 45} THEN Tail(s) ELSE s
Negative(s) == s # <<>> /\ Head(s) = 45

\* strconv.Atoi: <<err == nil, value>>
Atoi(s) ==
    IF AllDigits(Unsigned(s))
    THEN <<TRUE, IF Negative(s) THEN 0 - DigitsValue(Unsigned(s))
                 ELSE DigitsValue(Unsigned(s))>>
    ELSE <<FALSE, 0>>

\* strconv.ParseFloat on the decimal strings the lines of the model carry,
\* digits with at most one digit after the point: <<err == nil, tenths>>
ParseFloat(s) ==
    LET u == Unsigned(s)
        n == Len(u)
        sign == IF Negative(s) THEN -1 ELSE 1
    IN  IF AllDigits(u) THEN <<TRUE, sign * 10 * DigitsValue(u)>>
        ELSE IF n >= 3 /\ u[n - 1] = 46 /\ AllDigits(SubSeq(u, 1, n - 2))
                /\ u[n] \in 48..57
             THEN <<TRUE, sign * (10 * DigitsValue(SubSeq(u, 1, n - 2))
                                     + (u[n] - 48))>>
             ELSE <<FALSE, 0>>

\* "MSG" and "STA"
MSG == <<77, 83, 71>>
STA == <<83, 84, 65>>

\* an integer field of a line: the value when the field is set and parses
IntField(f, old) ==
    IF f # EmptyString /\ Atoi(TrimSpace(f))[1] THEN Atoi(TrimSpace(f))[2]
    ELSE old

\* a coordinate field of a line: a pointer when it is set and parses
FloatField(f) ==
    IF f # EmptyString /\ ParseFloat(TrimSpace(f))[1]
    THEN Ptr(ParseFloat(TrimSpace(f))[2])
    ELSE NilF

\* SBSParser.Parse at time t: <<aircraft, err != nil>>
Parse(line, t) ==
    LET fields == TrimLine(line) IN
    IF fields = <<EmptyString>> THEN <<NilAircraft, FALSE>>
    ELSE IF Len(fields) < 22 THEN <<NilAircraft, TRUE>>
    ELSE IF fields[1] # MSG THEN <<NilAircraft, FALSE>>
    ELSE IF TrimSpace(fields[5]) = EmptyString THEN <<NilAircraft, TRUE>>
    ELSE <<[ICAO |-> TrimSpace(fields[5]),
            LastSeen |-> t,
            FlightNumber |-> IF fields[11] # EmptyString
                             THEN TrimSpace(fields[11]) ELSE EmptyString,
            Altitude |-> IntField(fields[12], 0),
            Speed |-> IntField(fields[13], 0),
            Track |-> IntField(fields[14], 0),
            Heading |-> IntField(fields[14], 0),
            Latitude |-> FloatField(fields[15]),
            Longitude |-> FloatField(fields[16]),
            VerticalRate |-> IntField(fields[17], 0)], FALSE>>

\* the line "MSG,,,,icao,,,,,,,,gs,,lat,lon,,,,,," of the given first field
SBSLine(typ, icao, gs, lat, lon) ==
    <<typ, <<>>, <<>>, <<>>, icao, <<>>, <<>>, <<>>, <<>>, <<>>, <<>>,
      <<>>, gs, <<>>, lat, lon, <<>>, <<>>, <<>>, <<>>, <<>>, <<>>>>

\* the lines of the stream while shutdown is studied: "MSG,,,,A1,..."
ShutdownLines == {SBSLine(MSG, ICAO_A1, <<>>, <<>>, <<>>)}

\* the lines of the stream while decoding is studied: A1 at 300 knots (with
\* white space around the ICAO), B at 40.0, -100.5, B with an unreadable
\* speed, a line of 3 fields, a line without ICAO, a status line, a blank
\* line
IngestLines ==
    { SBSLine(MSG, <<32, 65, 49, 32>>, <<51, 48, 48>>, <<>>, <<>>),
      SBSLine(MSG, ICAO_B, <<>>, <<52, 48, 46, 48>>,
              <<45, 49, 48, 48, 46, 53>>),
      SBSLine(MSG, ICAO_B, <<51, 120>>, <<>>, <<>>),
      <<MSG, <<51>>, ICAO_A1>>,
      SBSLine(MSG, <<32>>, <<51, 48, 48>>, <<>>, <<>>),
      SBSLine(STA, ICAO_A1, <<>>, <<>>, <<>>),
      <<<<32>>>> }

---------------------------------------------------------------------------
(* Dump1090Client (internal/adsb/aircraft.go) *)

\* the capacity of msgChan (the program's is 100) and of errChan (10)
MsgChanCap == 2
ErrChanCap == 10

\* the callers of Close: App.cleanup and main's deferred call
Closers == {"cleanup", "main"}

\* readLoop returns: the deferred close(c.done)
RlReturn ==
    /\ rlpc' = "exited"
    /\ doneClosed' = TRUE

\* readLoop, after Parse returned res = <<aircraft, failed>>: a line that
\* fails to parse is skipped, a record is sent, a nil record is skipped
RlAfterParseMutant(res) == IF res[1] # NilAircraft \/ res[2] THEN "send" ELSE "scan"
RlAfterParse(res) ==
    IF res[2] THEN "scan"
    ELSE IF res[1] # NilAircraft THEN "send"
    ELSE "scan"

\* readLoop: scanner.Scan() returns a line, one of L, and the parser is
\* given it (lines the scanner has buffered are returned after the
\* connection is closed as well)
RlScan(L) ==
    /\ rlpc = "scan"
    /\ linesLeft > 0
    /\ linesLeft' = linesLeft - 1
    /\ \E line \in L :
          /\ scanned' = Append(scanned, <<line, now>>)
          /\ rlAc' = Parse(line, now)[1]
          /\ rlpc' = RlAfterParse(Parse(line, now))
    /\ UNCHANGED <<conn, connCloses, kills, isLocalCLI, msgChan, msgClosed,
                   errChan, errClosed, doneClosed, closeOnce, panicked>>
    /\ UNCHANGED <<trackerVars, renderVars, viewVars, now, nextTick, appVars>>

\* the same while shutdown is studied
RlScanLine == RlScan(ShutdownLines)

\* readLoop: scanner.Scan() returns false, at the end of the stream
\* (err = FALSE) or after a failed read (err = TRUE), the only outcome when
\* the connection is closed and nothing is buffered
RlScanEnd(err) ==
    /\ rlpc = "scan"
    /\ (conn = "closed" /\ linesLeft = 0) => err
    /\ IF err
       THEN rlpc' = "sendErr" /\ UNCHANGED doneClosed
       ELSE RlReturn
    /\ UNCHANGED <<conn, connCloses, kills, isLocalCLI, linesLeft, scanned, msgChan,
                   msgClosed, errChan, errClosed, closeOnce, rlAc, panicked>>
    /\ UNCHANGED <<trackerVars, renderVars, viewVars, now, nextTick, appVars>>

\* readLoop: `select { case c.msgChan <- aircraft: case <-c.done: return }`
RlSend ==
    /\ rlpc = "send"
    /\ \/ /\ msgClosed
          /\ panicked' = "send on closed channel"
          /\ rlpc' = "exited"
          /\ UNCHANGED <<msgChan, doneClosed>>
       \/ /\ ~msgClosed
          /\ Len(msgChan) < MsgChanCap
          /\ msgChan' = Append(msgChan, rlAc)
          /\ rlpc' = "scan"
          /\ UNCHANGED <<panicked, doneClosed>>
       \/ /\ doneClosed
          /\ RlReturn
          /\ UNCHANGED <<msgChan, panicked>>
    /\ UNCHANGED <<conn, connCloses, kills, isLocalCLI, linesLeft, scanned, msgClosed,
                   errChan, errClosed, closeOnce, rlAc>>
    /\ UNCHANGED <<trackerVars, renderVars, viewVars, now, nextTick, appVars>>

\* readLoop: `select { case c.errChan <- err: case <-c.done: return }`, and
\* the return that follows
RlSendErr ==
    /\ rlpc = "sendErr"
    /\ \/ /\ errClosed
          /\ panicked' = "send on closed channel"
          /\ rlpc' = "exited"
          /\ UNCHANGED <<errChan, doneClosed>>
       \/ /\ ~errClosed
          /\ Len(errChan) < ErrChanCap
          /\ errChan' = Append(errChan, "error reading from dump1090")
          /\ RlReturn
          /\ UNCHANGED panicked
       \/ /\ doneClosed
          /\ RlReturn
          /\ UNCHANGED <<errChan, panicked>>
    /\ UNCHANGED <<conn, connCloses, kills, isLocalCLI, linesLeft, scanned, msgChan,
                   msgClosed, errClosed, closeOnce, rlAc>>
    /\ UNCHANGED <<trackerVars, renderVars, viewVars, now, nextTick, appVars>>

\* Close: closeOnce.Do: the first caller runs the function, a caller that
\* arrives while it runs waits for it, a later caller returns at once
CloseOnceMutant(c) ==
    /\ cpc[c] = "once"
    /\ closeOnce' = "running"
    /\ cpc' = [cpc EXCEPT ![c] = "conn"]
    /\ UNCHANGED <<conn, connCloses, kills, isLocalCLI, linesLeft, scanned, msgChan,
                   msgClosed, errChan, errClosed, doneClosed, rlpc, rlAc,
                   panicked>>
    /\ UNCHANGED <<trackerVars, renderVars, viewVars, now, nextTick>>
    /\ UNCHANGED <<apc, cancelled, rmpc, prpc>>
CloseOnce(c) ==
    /\ cpc[c] = "once"
    /\ closeOnce # "running"
    /\ IF closeOnce = "fresh"
       THEN closeOnce' = "running" /\ cpc' = [cpc EXCEPT ![c] = "conn"]
       ELSE UNCHANGED closeOnce /\ cpc' = [cpc EXCEPT ![c] = "ret"]
    /\ UNCHANGED <<conn, connCloses, kills, isLocalCLI, linesLeft, scanned, msgChan,
                   msgClosed, errChan, errClosed, doneClosed, rlpc, rlAc,
                   panicked>>
    /\ UNCHANGED <<trackerVars, renderVars, viewVars, now, nextTick>>
    /\ UNCHANGED <<apc, cancelled, rmpc, prpc>>

\* Close: c.conn.Close(), and c.cmd.Process.Kill() for a local dump1090
CloseConn(c) ==
    /\ cpc[c] = "conn"
    /\ conn' = "closed"
    /\ connCloses' = connCloses + 1
    /\ kills' = IF isLocalCLI THEN kills + 1 ELSE kills
    /\ cpc' = [cpc EXCEPT ![c] = "wait"]
    /\ UNCHANGED <<isLocalCLI, linesLeft, scanned, msgChan, msgClosed, errChan,
                   errClosed, doneClosed, closeOnce, rlpc, rlAc, panicked>>
    /\ UNCHANGED <<trackerVars, renderVars, viewVars, now, nextTick>>
    /\ UNCHANGED <<apc, cancelled, rmpc, prpc>>

\* Close: `<-c.done` can proceed
DoneReceivedMutant == TRUE
DoneReceived == doneClosed

\* Close: `<-c.done`
CloseWait(c) ==
    /\ cpc[c] = "wait"
    /\ DoneReceived
    /\ cpc' = [cpc EXCEPT ![c] = "chans"]
    /\ UNCHANGED <<clientVars, trackerVars, renderVars, viewVars, now, nextTick>>
    /\ UNCHANGED <<apc, cancelled, rmpc, prpc>>

\* Close: close(c.msgChan), close(c.errChan), and the returns of the
\* function, of Do and of Close
CloseChans(c) ==
    /\ cpc[c] = "chans"
    /\ IF msgClosed \/ errClosed
       THEN /\ panicked' = "close of closed channel"
            /\ UNCHANGED <<msgClosed, errClosed, closeOnce>>
       ELSE /\ msgClosed' = TRUE
            /\ errClosed' = TRUE
            /\ closeOnce' = "done"
            /\ UNCHANGED panicked
    /\ cpc' = [cpc EXCEPT ![c] = "ret"]
    /\ UNCHANGED <<conn, connCloses, kills, isLocalCLI, linesLeft, scanned, msgChan,
                   errChan, doneClosed, rlpc, rlAc>>
    /\ UNCHANGED <<trackerVars, renderVars, viewVars, now, nextTick>>
    /\ UNCHANGED <<apc, cancelled, rmpc, prpc>>

\* a call of Close by caller c begins
CallClose(c) ==
    /\ cpc[c] = "idle"
    /\ cpc' = [cpc EXCEPT ![c] = "once"]

\* a call of Close made beside the others
ConcurrentClose(c) ==
    /\ CallClose(c)
    /\ UNCHANGED <<clientVars, trackerVars, renderVars, viewVars, now, nextTick>>
    /\ UNCHANGED <<apc, cancelled, rmpc, prpc>>

---------------------------------------------------------------------------
(* ui.App (internal/ui/app.go) and main (main.go) *)

\* readMessages: `case <-a.ctx.Done(): return`
RmExit ==
    /\ rmpc = "select"
    /\ upc = 0
    /\ cancelled
    /\ rmpc' = "exited"
    /\ UNCHANGED <<trackerVars, renderVars, viewVars, now, nextTick, clientVars>>
    /\ UNCHANGED <<apc, cpc, cancelled, prpc>>

\* readMessages: `case ac := <-a.dump1090.ReadMessages()` of a buffered
\* record, and the call a.tracker.Update(ac) up to its first write
RmRecv ==
    /\ rmpc = "select"
    /\ upc = 0
    /\ msgChan # <<>>
    /\ msgChan' = Tail(msgChan)
    /\ UpdateBegin(Head(msgChan))
    /\ UNCHANGED <<conn, connCloses, kills, isLocalCLI, linesLeft, scanned, msgClosed,
                   errChan, errClosed, doneClosed, closeOnce, rlpc, rlAc,
                   panicked>>
    /\ UNCHANGED <<renderVars, viewVars, now, nextTick, appVars>>

\* the user quits (handleEvent returns false or a.quit is closed): Run
\* returns and its deferred cleanup begins
AppQuit ==
    /\ apc = "run"
    /\ apc' = "cancel"
    /\ UNCHANGED <<trackerVars, renderVars, viewVars, now, nextTick, clientVars>>
    /\ UNCHANGED <<cpc, cancelled, rmpc, prpc>>

\* cleanup: a.cancel()
AppCancel ==
    /\ apc = "cancel"
    /\ cancelled' = TRUE
    /\ apc' = "close"
    /\ UNCHANGED <<trackerVars, renderVars, viewVars, now, nextTick, clientVars>>
    /\ UNCHANGED <<cpc, rmpc, prpc>>

\* cleanup: a.dump1090.Close() is called
AppClose ==
    /\ apc = "close"
    /\ CallClose("cleanup")
    /\ UNCHANGED <<trackerVars, renderVars, viewVars, now, nextTick, clientVars>>
    /\ UNCHANGED <<apc, cancelled, rmpc, prpc>>

\* cleanup: Close has returned; a.screen.Fini(), and Run returns to main
AppFini ==
    /\ apc = "close"
    /\ cpc["cleanup"] = "ret"
    /\ apc' = "deferred"
    /\ UNCHANGED <<trackerVars, renderVars, viewVars, now, nextTick, clientVars>>
    /\ UNCHANGED <<cpc, cancelled, rmpc, prpc>>

\* main returns: `defer dump1090Client.Close()` is called
MainClose ==
    /\ apc = "deferred"
    /\ CallClose("main")
    /\ UNCHANGED <<trackerVars, renderVars, viewVars, now, nextTick, clientVars>>
    /\ UNCHANGED <<apc, cancelled, rmpc, prpc>>

\* main: the deferred Close has returned; the process exits
MainExit ==
    /\ apc = "deferred"
    /\ cpc["main"] = "ret"
    /\ apc' = "exit"
    /\ UNCHANGED <<trackerVars, renderVars, viewVars, now, nextTick, clientVars>>
    /\ UNCHANGED <<cpc, cancelled, rmpc, prpc>>

---------------------------------------------------------------------------
(* The program after App.Run has started its goroutines: the tracker as    *)
(* main builds it with timeout t, a source that will deliver n lines       *)

ClientInit(n) ==
    /\ conn = "open"
    /\ connCloses = 0
    /\ kills = 0
    /\ isLocalCLI \in BOOLEAN
    /\ linesLeft = n
    /\ scanned = <<>>
    /\ msgChan = <<>>
    /\ msgClosed = FALSE
    /\ errChan = <<>>
    /\ errClosed = FALSE
    /\ doneClosed = FALSE
    /\ closeOnce = "fresh"
    /\ rlpc = "scan"
    /\ rlAc = NilAircraft
    /\ panicked = ""
    /\ apc = "run"
    /\ cpc = [c \in Closers |-> "idle"]
    /\ cancelled = FALSE
    /\ rmpc = "select"
    /\ prpc = "wait"

TrackerOnly(t) ==
    /\ heap = <<>>
    /\ hist = <<>>
    /\ after = <<>>
    /\ aircraft = <<>>
    /\ mu = "free"
    /\ timeout = NewTracker(t)
    /\ removed = 0
    /\ upc = 0
    /\ uac = NewAircraft(ICAO_Empty, 0)
    /\ snap = <<>>
    /\ dirty = TRUE
    /\ seen = <<>>
    /\ first = 0
    /\ now = 0
    /\ nextTick = PruneInterval
    /\ lastOp = "none"

\* the same with the view built on the default grid
TrackerInit(t) ==
    /\ TrackerOnly(t)
    /\ NewApp(DefaultWidth, DefaultHeight, Features, DefaultRadius,
                  DefaultAspect)

\* records from R are passed to Update, at most max of them
Feed(R, max) ==
    /\ SumLen(hist) < max
    /\ \E ac \in R :
        /\ UpdateBegin(ac)
        /\ UNCHANGED <<renderVars, viewVars, now, nextTick, clientVars, appVars>>

\* main: adsb.NewTracker(60 * time.Second); the tracker's callers alone,
\* with a source that delivers nothing
Init == TrackerInit(60) /\ ClientInit(0) /\ isLocalCLI

Next ==
    \/ Feed(Records(now), MaxUpdates)
    \/ UpdateStep
    \/ CallPruneStale
    \/ \E t \in Instants : Tick(t)

Spec == Init /\ [][Next]_vars

\* the ingestion beside the render loop, which calls GetAll and reads the
\* entries of the slice it got
RaceNext ==
    \/ Feed(RaceRecords(now), MaxRaceUpdates)
    \/ UpdateStep
    \/ GetAll
    \/ \E i \in 1..Len(snap) : Observe(i)
    \/ CallPruneStale
    \/ \E t \in Instants : Tick(t)

RaceSpec == Init /\ [][RaceNext]_vars

\* updates, sweeps and snapshots at the instants around the staleness age
SweepNext ==
    \/ Feed(SweepRecords(now), MaxSweepUpdates)
    \/ UpdateStep
    \/ GetAll
    \/ CallPruneStale
    \/ \E t \in SweepInstants : Tick(t)

SweepSpec == Init /\ [][SweepNext]_vars

\* the same, for a tracker built with any of the timeouts
TimeoutInit ==
    \E t \in TimeoutArgs : TrackerInit(t) /\ ClientInit(0) /\ isLocalCLI

TimeoutSpec == TimeoutInit /\ [][SweepNext]_vars

\* the running system on the clock: records arrive up to MaxFeedTime, the
\* ticker sweeps every PruneInterval, the render loop takes snapshots
TimedNext ==
    \/ now <= MaxFeedTime /\ Feed(TimedRecords(now), MaxTimedUpdates)
    \/ UpdateStep
    \/ GetAll
    \/ PruneTick
    \/ TimedTick(MaxTime)

TimedSpec == Init /\ [][TimedNext]_vars

\* shutdown: the source delivers MaxLines lines while the user may quit
ShutdownInit == TrackerInit(60) /\ ClientInit(MaxLines)

ShutdownNext ==
    \/ RlScanLine
    \/ \E err \in BOOLEAN : RlScanEnd(err)
    \/ RlSend
    \/ RlSendErr
    \/ RmRecv
    \/ UpdateStep
    \/ RmExit
    \/ PruneTick
    \/ PrunerExit
    \/ \E t \in {nextTick} : t <= MaxShutdownTime /\ Tick(t)
    \/ AppQuit
    \/ AppCancel
    \/ AppClose
    \/ AppFini
    \/ MainClose
    \/ MainExit
    \/ \E c \in Closers :
          CloseOnce(c) \/ CloseConn(c) \/ CloseWait(c) \/ CloseChans(c)

ShutdownSpec == ShutdownInit /\ [][ShutdownNext]_vars

\* every goroutine that can take a step takes one in the end; readMessages,
\* whose select chooses at random among its ready cases, takes its ctx.Done
\* case in the end
ShutdownFairness ==
    /\ WF_vars(RlScanLine \/ (\E err \in BOOLEAN : RlScanEnd(err))
                  \/ RlSend \/ RlSendErr)
    /\ WF_vars(RmRecv \/ UpdateStep)
    /\ SF_vars(RmExit)
    /\ WF_vars(PruneTick \/ PrunerExit)
    /\ WF_vars(AppCancel \/ AppClose \/ AppFini \/ MainClose \/ MainExit)
    /\ WF_vars(\E c \in Closers :
                  CloseOnce(c) \/ CloseConn(c) \/ CloseWait(c)
                      \/ CloseChans(c))

ShutdownFairSpec == ShutdownSpec /\ ShutdownFairness

\* the same with calls of Close made at any time, beside one another
CloseNext == ShutdownNext \/ \E c \in Closers : ConcurrentClose(c)

CloseSpec == ShutdownInit /\ [][CloseNext]_vars

\* ingestion alone: readLoop decodes the lines of the stream, readMessages
\* applies the records to the tracker, time passes
IngestNext ==
    \/ RlScan(IngestLines)
    \/ \E err \in BOOLEAN : RlScanEnd(err)
    \/ RlSend
    \/ RlSendErr
    \/ RmRecv
    \/ UpdateStep
    \/ \E t \in Instants : Tick(t)

IngestSpec == ShutdownInit /\ [][IngestNext]_vars

\* the direction symbol of every record that reaches the tracker
CardinalNext ==
    \/ Feed(CardinalRecords(now), 1)
    \/ GetAll
    \/ \E i \in 1..Len(snap) : Observe(i)

CardinalSpec == Init /\ [][CardinalNext]_vars

\* the view built from the flags and the screen size, then resized and
\* zoomed
ConfigInit ==
    /\ \E t \in {60} : TrackerOnly(t)
    /\ ClientInit(0)
    /\ isLocalCLI
    /\ \E g \in GridSizes, r \in RadiusArgs, a \in AspectArgs :
          NewApp(g[1], g[2], Features, r, a)

ConfigNext ==
    \/ \E g \in ResizeSizes : MapViewUpdateDimensions(g[1], g[2])
    \/ ZoomIn
    \/ ZoomOut

ConfigSpec == ConfigInit /\ [][ConfigNext]_vars

\* the render loop drawing frames while records arrive
DrawNext ==
    \/ Feed(DrawRecords(now), MaxDrawUpdates)
    \/ UpdateStep
    \/ GetAll
    \/ \E sel \in {EmptyString, ICAO_A1, ICAO_B} : Draw(sel)

DrawSpec == Init /\ [][DrawNext]_vars

\* the tracker's callers, some of them passing nil or a record with no ICAO
NoopRecords(t) ==
    {NilAircraft}
        \cup {Record(i, s, t) :
                 i \in {ICAO_Empty, ICAO_A1},
                 s \in {[f \in {} |-> 0],
                        [Latitude |-> Ptr(400), Longitude |-> Ptr(-1000)],
                        [FlightNumber |-> UAL1, Speed |-> 300]}}

NoopNext ==
    \/ Feed(NoopRecords(now), MaxNoopUpdates)
    \/ UpdateStep
    \/ GetAll
    \/ CallPruneStale
    \/ \E t \in Instants : Tick(t)

NoopSpec == Init /\ [][NoopNext]_vars

\* records that carry any time stamp, older than the stored one or newer
StampNext ==
    \/ \E t \in Instants : Feed(StampRecords(t), MaxStampUpdates)
    \/ UpdateStep
    \/ CallPruneStale
    \/ \E t \in Instants : Tick(t)

StampSpec == Init /\ [][StampNext]_vars

\* the tracker with GetFirstWithPosition called at any time
LockNext ==
    \/ Feed(LockRecords(now), MaxLockUpdates)
    \/ UpdateStep
    \/ GetFirstWithPosition
    \/ CallPruneStale
    \/ \E t \in Instants : Tick(t)

LockSpec == Init /\ [][LockNext]_vars

\* Single calls on the canvas of the view.  Texts and lines are drawn from
\* and to the cells and the places just outside the grid; Set is called on
\* the corners, on a cell inside, just outside each side, and far outside:
\* (-5,-5) and (width+5, height+5).
CanvasPoints == ((0 - 1)..CanvasWidth) \X ((0 - 1)..CanvasHeight)
SetPoints ==
    {<<0, 0>>, <<2, 2>>, <<CanvasWidth - 1, CanvasHeight - 1>>,
     <<0 - 1, 0>>, <<0, 0 - 1>>, <<CanvasWidth, 1>>, <<1, CanvasHeight>>,
     <<0 - 5, 0 - 5>>, <<CanvasWidth + 5, CanvasHeight + 5>>}
LineStarts == {<<0, 0>>, <<2, 1>>, <<0 - 1, 0 - 1>>}
Texts == {<<97, 98>>, <<97, 201, 98>>}

\* a call made on the canvas or the renderer, with its arguments
CanvasCall(op, x0, y0, x1, y1, text, style) ==
    [op |-> op, x0 |-> x0, y0 |-> y0, x1 |-> x1, y1 |-> y1, text |-> text,
     style |-> style]

\* the drawing st, made on the renderer's canvas after the calls of writes,
\* becomes the state of the canvas
Drawn(op, st, call) ==
    /\ Len(writes) < MaxCanvasWrites
    /\ cvs' = [cvs EXCEPT ![renderer.canvas] = st.cv]
    /\ writes' = st.log
    /\ req' = call
    /\ lastOp' = op
    /\ UNCHANGED <<heap, hist, after, aircraft, mu, timeout, removed, upc, uac,
                   dirty>>
    /\ UNCHANGED <<renderVars, first, mapFeatures, uiVars, projs, mapView, renderer,
                   now, nextTick, clientVars, appVars>>

OnCanvas == [cv |-> cvs[renderer.canvas], log |-> writes, panic |-> FALSE]

\* Canvas.Set(x, y, '.', style)
SetCall(x, y, style) ==
    Drawn("Set", SetCell(OnCanvas, "Set", x, y, 46, style),
          CanvasCall("Set", x, y, x, y, <<46>>, style))

\* Canvas.DrawText(x, y, text, style)
DrawTextCall(x, y, text, style) ==
    Drawn("DrawText", DrawText(OnCanvas, "DrawText", x, y, text, style),
          CanvasCall("DrawText", x, y, x, y, text, style))

\* MapRenderer.DrawLine(x0, y0, x1, y1, 'x', style)
DrawLineCall(x0, y0, x1, y1, style) ==
    Drawn("DrawLine",
          DrawLine(OnCanvas, "DrawLine", x0, y0, x1, y1, 120, style),
          CanvasCall("DrawLine", x0, y0, x1, y1, <<120>>, style))

CanvasInit ==
    /\ \E t \in {60} : TrackerOnly(t)
    /\ ClientInit(0)
    /\ isLocalCLI
    /\ NewApp(CanvasWidth, CanvasHeight, Features, DefaultRadius,
                  DefaultAspect)

CanvasNext ==
    \/ \E pt \in SetPoints : SetCall(pt[1], pt[2], StyleCity)
    \/ \E pt \in CanvasPoints, text \in Texts :
          DrawTextCall(pt[1], pt[2], text, StyleLabel)
    \/ \E a \in LineStarts, b \in CanvasPoints :
          DrawLineCall(a[1], a[2], b[1], b[2], StyleHighway)

CanvasSpec == CanvasInit /\ [][CanvasNext]_vars

\* The grid on which cities and airports are placed cell by cell.  With
\* the default aspect ratio and a radius of 13.8 miles per row, a row is
\* 0.2 degrees of latitude and a column 0.1 degrees of longitude.
PlaceProjection ==
    NewProjection(DefaultCenterLat, DefaultCenterLon, 1380 * PlaceHeight,
                  PlaceWidth, PlaceHeight, DefaultAspect)

\* the coordinates that project to cell (x, y) of that grid
PlaceAt(x, y) ==
    LatLon(Unproject(PlaceProjection, x, y).Lat,
           Unproject(PlaceProjection, x, y).Lon)

\* the names of the places: the city is "Ab" or, with a character of two
\* bytes (U+00C9), "Eb" with an acute accent; the airports "K" and "J"
CityNames == {<<65, 98>>, <<201, 98>>}
AirportK == <<75>>
AirportJ == <<74>>

\* the airports loaded: none; "K" at (12,5); "K" at (10,5); "K" at (10,5)
\* and "J" right of it, on K's label; "K" one column from the right edge;
\* "K" three columns right of the grid, out of view
AirportScenes ==
    {<<>>,
     <<NewPointFeature("Airport", PlaceAt(12, 5), AirportK)>>,
     <<NewPointFeature("Airport", PlaceAt(10, 5), AirportK)>>,
     <<NewPointFeature("Airport", PlaceAt(10, 5), AirportK),
       NewPointFeature("Airport", PlaceAt(11, 5), AirportJ)>>,
     <<NewPointFeature("Airport", PlaceAt(PlaceWidth - 2, 2), AirportK)>>,
     <<NewPointFeature("Airport", PlaceAt(PlaceWidth + 2, 5), AirportK)>>}

\* the features loaded: one city, on any cell of the grid or left of it,
\* and the airports of a scene
PlaceScenes ==
    {[City |-> <<NewPointFeature("City", PlaceAt(x, y), name)>>,
      Airport |-> as] :
        x \in (0 - 1)..(PlaceWidth - 1), y \in 0..(PlaceHeight - 1),
        name \in CityNames, as \in AirportScenes}

PlacesInit ==
    /\ \E t \in {60} : TrackerOnly(t)
    /\ ClientInit(0)
    /\ isLocalCLI
    /\ \E fs \in PlaceScenes :
          NewApp(PlaceWidth, PlaceHeight, fs, 1380 * PlaceHeight,
                     DefaultAspect)

\* frames of the map alone
PlacesNext == Draw(EmptyString)

PlacesSpec == PlacesInit /\ [][PlacesNext]_vars

\* Lists of features filtered by the bounds of the view.  The points lie
\* inside the view of PlaceProjection, on its corners (on two edges of the
\* bounds each) and just beyond each of its edges; the lines have no point,
\* no point inside though they cross the view, their first point alone
\* inside, and their last point alone inside, on the western edge.
FilterPool ==
    {NewPointFeature("City", PlaceAt(3, 3), <<65, 98>>),
     NewPointFeature("City", PlaceAt(0, 0), <<65, 98>>),
     NewPointFeature("City", PlaceAt(PlaceWidth - 1, PlaceHeight - 1),
                     <<65, 98>>),
     NewPointFeature("City", PlaceAt(0 - 1, 3), <<65, 98>>),
     NewPointFeature("City", PlaceAt(PlaceWidth, 3), <<65, 98>>),
     NewPointFeature("City", PlaceAt(3, 0 - 1), <<65, 98>>),
     NewPointFeature("City", PlaceAt(3, PlaceHeight), <<65, 98>>),
     NewLineFeature("Highway", <<>>),
     NewLineFeature("Highway",
                    <<PlaceAt(0 - 1, 0 - 1), PlaceAt(PlaceWidth, PlaceHeight)>>),
     NewLineFeature("Highway", <<PlaceAt(3, 3), PlaceAt(PlaceWidth + 2, 3)>>),
     NewLineFeature("Highway",
                    <<PlaceAt(0 - 2, 3), PlaceAt(0 - 1, 3), PlaceAt(0, 3)>>)}

RECURSIVE ListsOf(_, _)
ListsOf(pool, n) ==
    IF n = 0 THEN {<<>>}
    ELSE ListsOf(pool, n - 1)
            \cup {Append(l, f) : l \in ListsOf(pool, n - 1), f \in pool}

\* the sizes the view has: the size of PlaceProjection, a smaller
\* one, and one with no row (the bounds are then NaN)
FilterSizes == {<<PlaceWidth, PlaceHeight>>, <<12, 6>>, <<PlaceWidth, 0>>}

\* geo.FilterByBounds(features, bounds) with the bounds of the view, as
\* RenderMap calls it
FilterCall(features) ==
    /\ req' = [op |-> "FilterByBounds", features |-> features,
               bounds |-> GetBounds(projs[renderer.projection]),
               result |-> FilterByBounds(features,
                             GetBounds(projs[renderer.projection]))]
    /\ lastOp' = "FilterByBounds"
    /\ UNCHANGED <<heap, hist, after, aircraft, mu, timeout, removed, upc, uac,
                   dirty>>
    /\ UNCHANGED <<renderVars, first, mapFeatures, uiVars, projs, cvs, mapView,
                   renderer, writes, now, nextTick, clientVars, appVars>>

FilterInit ==
    /\ \E t \in {60} : TrackerOnly(t)
    /\ ClientInit(0)
    /\ isLocalCLI
    /\ \E g \in FilterSizes :
          NewApp(g[1], g[2], Features, 1380 * PlaceHeight, DefaultAspect)

\* the lists hold two features at most
FilterNext == \E l \in ListsOf(FilterPool, 2) : FilterCall(l)

FilterSpec == FilterInit /\ [][FilterNext]_vars

\* Single calls of Project and Unproject on the projection of a view.
\* The radii are 69 and 138 miles, 1 and 2 degrees of latitude; with the
\* aspect ratios 1.0, 2.0 and 4.0 the two grids take both branches of
\* calculateScale.
ProjSizes == {<<12, 6>>, <<24, 8>>}
ProjRadii == {6900, 13800}

\* calculateScale's degreesLat and degreesLon, in tenths of a degree: the
\* radius in degrees of latitude and of longitude
DegreesLat(p) == Quot(p.radiusMiles * 10, 6900)
DegreesLon(p) == Quot(p.radiusMiles * 10000, 6900 * Cos1000(p.centerLat))

\* the points at the distance of the radius due north, south, east and
\* west of the centre
North(p) == LatLon(p.centerLat + DegreesLat(p), p.centerLon)
South(p) == LatLon(p.centerLat - DegreesLat(p), p.centerLon)
East(p) == LatLon(p.centerLat, p.centerLon + DegreesLon(p))
West(p) == LatLon(p.centerLat, p.centerLon - DegreesLon(p))
Cardinals(p) == {North(p), South(p), East(p), West(p)}

\* the coordinates around the centre: along its meridian, along its
\* parallel and along the two diagonals
Around(p) ==
    {LatLon(p.centerLat + i * d[1], p.centerLon + i * d[2]) :
        i \in (0 - ProjReach)..ProjReach,
        d \in {<<1, 0>>, <<0, 1>>, <<1, 1>>, <<1, 0 - 1>>}}

\* Projection.Project(lat, lon) on the projection of the view
ProjectCall(lat, lon) ==
    /\ req' = [op |-> "Project", lat |-> lat, lon |-> lon,
               x |-> Project(projs[mapView.projection], lat, lon).X,
               y |-> Project(projs[mapView.projection], lat, lon).Y]
    /\ lastOp' = "Project"
    /\ UNCHANGED <<heap, hist, after, aircraft, mu, timeout, removed, upc, uac,
                   dirty>>
    /\ UNCHANGED <<renderVars, first, mapFeatures, uiVars, projs, cvs, mapView,
                   renderer, writes, now, nextTick, clientVars, appVars>>

\* Projection.Unproject(x, y) on the projection of the view
UnprojectCall(x, y) ==
    /\ req' = [op |-> "Unproject", x |-> x, y |-> y,
               lat |-> Unproject(projs[mapView.projection], x, y).Lat,
               lon |-> Unproject(projs[mapView.projection], x, y).Lon]
    /\ lastOp' = "Unproject"
    /\ UNCHANGED <<heap, hist, after, aircraft, mu, timeout, removed, upc, uac,
                   dirty>>
    /\ UNCHANGED <<renderVars, first, mapFeatures, uiVars, projs, cvs, mapView,
                   renderer, writes, now, nextTick, clientVars, appVars>>

ProjInit ==
    /\ \E t \in {60} : TrackerOnly(t)
    /\ ClientInit(0)
    /\ isLocalCLI
    /\ \E g \in ProjSizes, r \in ProjRadii, a \in AspectArgs :
          NewApp(g[1], g[2], Features, r, a)

ProjNext ==
    \/ \E pt \in Cardinals(projs[mapView.projection])
                  \cup Around(projs[mapView.projection]) :
          ProjectCall(pt.Lat, pt.Lon)
    \/ \E x \in 0..(mapView.width - 1), y \in 0..(mapView.height - 1) :
          UnprojectCall(x, y)

ProjSpec == ProjInit /\ [][ProjNext]_vars

\* Zooming from the radii the -r flag accepts: main passes the value of
\* the flag to NewApp unchecked.  In miles: -150, 5, 10, 12, 150, 900,
\* 1000 and 5000.
ZoomArgs == {0 - 15000, 500, 1000, 1200, 15000, 90000, 100000, 500000}

ZoomInit ==
    /\ \E t \in {60} : TrackerOnly(t)
    /\ ClientInit(0)
    /\ isLocalCLI
    /\ \E r \in ZoomArgs : NewApp(12, 6, Features, r, DefaultAspect)

ZoomNext == ZoomIn \/ ZoomOut

ZoomSpec == ZoomInit /\ [][ZoomNext]_vars

\* The methods of the list view, called in any order on the slices GetAll
\* returns while aircraft appear and are evicted.  The heights give a
\* window of 1 row, of 2 rows and of 10 rows (the height App uses is 12).
ListHeights == {2, 4, 12}

ListCall(op, l) ==
    /\ listView' = l
    /\ lastOp' = op
    /\ UNCHANGED <<heap, hist, after, aircraft, mu, timeout, removed, upc, uac,
                   dirty>>
    /\ UNCHANGED <<renderVars, first, mapFeatures, detailView, currentView,
                   quit, dl, projs, cvs, mapView, renderer, writes, req, now,
                   nextTick, clientVars, appVars>>

\* the records fed: the first record of an aircraft that is not tracked
NewcomerRecords(t) ==
    {r \in SweepRecords(t) : r.ICAO \notin DOMAIN aircraft}

ListNext ==
    \/ Feed(NewcomerRecords(now), MaxListUpdates)
    \/ CallPruneStale
    \/ \E t \in Instants : Tick(t)
    \/ GetAll
    \/ ListCall("ListView.Update", ListViewUpdate(listView, snap))
    \/ ListCall("SelectNext", SelectNext(listView))
    \/ ListCall("SelectPrev", SelectPrev(listView))
    \/ \E h \in ListHeights :
          ListCall("ListView.UpdateDimensions",
                   ListViewUpdateDimensions(listView, 0, DefaultHeight - h,
                                            30, h))

ListSpec == Init /\ [][ListNext]_vars

---------------------------------------------------------------------------
(* ui.App: the loop of Run (internal/ui/app.go) *)

\* Run is in its loop: it has not returned
AppRunning == apc = "run"

\* App.render: GetAll's slice s and the selection of list l drawn by
\* MapView.Draw on the projections ps
Rendered(s, l, ps) ==
    LET selected == GetSelected(l)
        selectedICAO == IF selected = 0 THEN EmptyString
                        ELSE heap[selected].ICAO
        cleared == [cvs EXCEPT ![mapView.canvas] = CanvasClear(@)]
        st == DrawLayers(cleared[renderer.canvas], ps[renderer.projection],
                         mapFeatures, [i \in 1..Len(s) |-> heap[s[i]]],
                         selectedICAO)
    IN  /\ cvs' = [cleared EXCEPT ![renderer.canvas] = st.cv]
        /\ writes' = st.log
        /\ panicked' = IF st.panic THEN "nil pointer dereference"
                       ELSE panicked
        /\ req' = Request("Draw", mapView.width, mapView.height,
                          mapView.radiusMiles, selectedICAO)

\* `case <-ticker.C`: a.update() and a.render(), at a moment no Update
\* holds the tracker's lock
AppTick ==
    /\ AppRunning
    /\ mu = "free"
    /\ \E o \in Orders(DOMAIN aircraft) :
        LET s == GetAllOf(o)
            l == ListViewUpdate(listView, s)
            v == SetCenterFromFirstAircraft(View, s)
        IN  /\ snap' = s
            /\ listView' = l
            /\ projs' = v.projs
            /\ mapView' = v.mapView
            /\ detailView' = IF currentView = "Detail"
                             THEN SetAircraft(detailView, GetSelected(l))
                             ELSE detailView
            /\ Rendered(s, l, v.projs)
    /\ dirty' = FALSE
    /\ lastOp' = "App.update"
    /\ UNCHANGED <<heap, hist, after, aircraft, mu, timeout, removed, upc, uac>>
    /\ UNCHANGED <<seen, first, mapFeatures, currentView, quit, dl, renderer,
                   now, nextTick>>
    /\ UNCHANGED <<conn, connCloses, kills, isLocalCLI, linesLeft, scanned,
                   msgChan, msgClosed, errChan, errClosed, doneClosed,
                   closeOnce, rlpc, rlAc>>
    /\ UNCHANGED appVars

\* what a key leaves behind: the list l, the detail view d, the view mode
\* mode, the view and its projections v; when the handler closes a.quit
\* (closes), handleEvent returns false and Run returns; closing a closed
\* channel panics
KeyHandled(op, l, d, mode, closes, v) ==
    /\ listView' = l
    /\ detailView' = d
    /\ currentView' = mode
    /\ quit' = IF closes THEN "closed" ELSE quit
    /\ panicked' = IF closes /\ quit = "closed"
                   THEN "close of closed channel"
                   ELSE panicked
    /\ apc' = IF closes THEN "cancel" ELSE apc
    /\ projs' = v.projs
    /\ mapView' = v.mapView
    /\ lastOp' = op
    /\ UNCHANGED <<heap, hist, after, aircraft, mu, timeout, removed, upc, uac,
                   dirty>>
    /\ UNCHANGED <<renderVars, first, mapFeatures, dl, cvs, renderer, writes,
                   req, now, nextTick>>
    /\ UNCHANGED <<conn, connCloses, kills, isLocalCLI, linesLeft, scanned,
                   msgChan, msgClosed, errChan, errClosed, doneClosed,
                   closeOnce, rlpc, rlAc>>
    /\ UNCHANGED <<cpc, cancelled, rmpc, prpc>>

\* handleEvent, tcell.KeyEscape
KeyEscapeMutant ==
    /\ AppRunning
    /\ KeyHandled("KeyEscape", listView, detailView, "Map", TRUE, View)
KeyEscape ==
    /\ AppRunning
    /\ IF currentView = "Detail"
       THEN KeyHandled("KeyEscape", listView, detailView, "Map", FALSE, View)
       ELSE KeyHandled("KeyEscape", listView, detailView, currentView, TRUE,
                       View)

\* handleEvent, tcell.KeyEnter
KeyEnter ==
    /\ AppRunning
    /\ IF currentView = "Map"
       THEN KeyHandled("KeyEnter", listView,
                       SetAircraft(detailView, GetSelected(listView)),
                       "Detail", FALSE, View)
       ELSE KeyHandled("KeyEnter", listView, detailView, currentView, FALSE,
                       View)

\* handleEvent, tcell.KeyUp
KeyUp ==
    /\ AppRunning
    /\ IF currentView = "Map"
       THEN KeyHandled("KeyUp", SelectPrev(listView), detailView, currentView,
                       FALSE,
                       CenterOnAircraft(View,
                                        GetSelected(SelectPrev(listView))))
       ELSE KeyHandled("KeyUp", listView, detailView, currentView, FALSE, View)

\* handleEvent, tcell.KeyDown
KeyDown ==
    /\ AppRunning
    /\ IF currentView = "Map"
       THEN KeyHandled("KeyDown", SelectNext(listView), detailView,
                       currentView, FALSE,
                       CenterOnAircraft(View,
                                        GetSelected(SelectNext(listView))))
       ELSE KeyHandled("KeyDown", listView, detailView, currentView, FALSE,
                       View)

\* handleEvent, tcell.KeyRune 'q' or 'Q'
KeyQuit ==
    /\ AppRunning
    /\ KeyHandled("KeyQuit", listView, detailView, currentView, TRUE, View)

\* handleEvent, tcell.KeyRune 'r' or 'R': a.render()
KeyRefresh ==
    /\ AppRunning
    /\ mu = "free"
    /\ \E o \in Orders(DOMAIN aircraft) :
        /\ snap' = GetAllOf(o)
        /\ Rendered(GetAllOf(o), listView, projs)
    /\ dirty' = FALSE
    /\ lastOp' = "KeyRefresh"
    /\ UNCHANGED <<heap, hist, after, aircraft, mu, timeout, removed, upc, uac>>
    /\ UNCHANGED <<seen, first, mapFeatures, uiVars, projs, mapView, renderer,
                   now, nextTick>>
    /\ UNCHANGED <<conn, connCloses, kills, isLocalCLI, linesLeft, scanned,
                   msgChan, msgClosed, errChan, errClosed, doneClosed,
                   closeOnce, rlpc, rlAc>>
    /\ UNCHANGED appVars

\* handleEvent, tcell.KeyRune '+' or '='
KeyPlus == AppRunning /\ ZoomIn

\* handleEvent, tcell.KeyRune '-' or '_'
KeyMinus == AppRunning /\ ZoomOut

\* handleEvent, *tcell.EventResize: App.handleResize with the screen's
\* new size
HandleResize(width, height) ==
    /\ AppRunning
    /\ MapViewResized(width, height)
    /\ listView' = ListViewUpdateDimensions(listView, 0, height - 12, 30, 12)
    /\ detailView' = DetailViewUpdateDimensions(detailView, 0, height - 15,
                                                50, 15)
    /\ UNCHANGED <<heap, hist, after, aircraft, mu, timeout, removed, upc, uac,
                   dirty>>
    /\ UNCHANGED <<renderVars, first, mapFeatures, currentView, quit, dl,
                   writes, now, nextTick, clientVars, appVars>>

\* at most this many records reach the tracker while the loop of Run is
\* followed
MaxAppUpdates == 2

\* the screen size after a resize event
ResizedWidth == 8
ResizedHeight == 4

\* the records that arrive: A and A1 without a position, A1 at 40.0,
\* -100.0, B at 41.0, -97.5
AppRecords(t) ==
    {Record(ICAO_A, [f \in {} |-> 0], t),
     Record(ICAO_A1, [f \in {} |-> 0], t),
     Record(ICAO_A1, [Latitude |-> Ptr(400), Longitude |-> Ptr(0 - 1000)], t),
     Record(ICAO_B, [Latitude |-> Ptr(410), Longitude |-> Ptr(0 - 975)], t)}

\* the loop of Run beside the ingestion: ticks and the keys of the view
\* modes
AppNext ==
    \/ Feed(AppRecords(now), MaxAppUpdates)
    \/ UpdateStep
    \/ AppTick
    \/ KeyEscape
    \/ KeyEnter
    \/ KeyUp
    \/ KeyDown
    \/ KeyQuit

AppSpec == Init /\ [][AppNext]_vars

\* LoadFeatures when the data directory holds no feature file
NoFeatures == [ftype \in {} |-> <<>>]

\* the records that arrive while the view is zoomed, resized and centred:
\* the first record, with a position, of an aircraft that is not tracked
ViewRecords(t) ==
    {r \in AppRecords(t) : r.ICAO \notin DOMAIN aircraft
                              /\ PositionLocked(r)}

\* the application started without map data
ViewInit ==
    /\ \E t \in {60} : TrackerOnly(t)
    /\ ClientInit(0)
    /\ isLocalCLI
    /\ NewApp(DefaultWidth, DefaultHeight, NoFeatures, DefaultRadius,
              DefaultAspect)

\* the loop of Run zooming, resizing and centring the view
ViewNext ==
    \/ Feed(ViewRecords(now), MaxAppUpdates)
    \/ AppTick
    \/ KeyUp
    \/ KeyDown
    \/ KeyPlus
    \/ KeyMinus
    \/ HandleResize(ResizedWidth, ResizedHeight)

ViewSpec == ViewInit /\ [][ViewNext]_vars

---------------------------------------------------------------------------
(* MapRenderer.DrawLine on Go's int: a machine integer of IntWidth bits *)

\* the width of int in bits (64 in the builds of the program)
IntWidth == 4

IntMin == 0 - 2 ^ (IntWidth - 1)
IntMax == 2 ^ (IntWidth - 1) - 1
Ints == IntMin..IntMax

\* two's complement wrap-around of an arithmetic result
Wrap(v) == ((v - IntMin) % (2 ^ IntWidth)) + IntMin

\* abs of part_003: -x wraps for the least int
AbsInt(x) == IF x < 0 THEN Wrap(0 - x) ELSE x

\* the start points tried: the origin and the corners of the int range
LineFrom == {IntMin, 0}

\* DrawLine(x0, y0, x1, y1, char, style) up to its loop
LineBegin(x0, y0, x1, y1) ==
    /\ dl.pc = "idle"
    /\ dl' = [pc |-> "loop", x0 |-> x0, y0 |-> y0, x1 |-> x1, y1 |-> y1,
              x |-> x0, y |-> y0,
              dx |-> AbsInt(Wrap(x1 - x0)), dy |-> AbsInt(Wrap(y1 - y0)),
              sx |-> IF x0 < x1 THEN 1 ELSE 0 - 1,
              sy |-> IF y0 < y1 THEN 1 ELSE 0 - 1,
              err |-> Wrap(AbsInt(Wrap(x1 - x0)) - AbsInt(Wrap(y1 - y0))),
              n |-> 0]
    /\ lastOp' = "DrawLine"
    /\ UNCHANGED <<heap, hist, after, aircraft, mu, timeout, removed, upc, uac,
                   dirty>>
    /\ UNCHANGED <<renderVars, first, mapFeatures, listView, detailView,
                   currentView, quit, projs, cvs, mapView, renderer, writes,
                   req, now, nextTick, clientVars, appVars>>

\* one iteration of the loop: the cell is set; at the end point the loop
\* breaks, else e2 decides the moves along x and y
LineStepped ==
    LET e2 == Wrap(2 * dl.err)
        stepX == e2 > Wrap(0 - dl.dy)
        stepY == e2 < dl.dx
        err1 == IF stepX THEN Wrap(dl.err - dl.dy) ELSE dl.err
    IN  IF dl.x = dl.x1 /\ dl.y = dl.y1
        THEN [dl EXCEPT !.pc = "done"]
        ELSE [dl EXCEPT !.x = IF stepX THEN Wrap(@ + dl.sx) ELSE @,
                        !.y = IF stepY THEN Wrap(@ + dl.sy) ELSE @,
                        !.err = IF stepY THEN Wrap(err1 + dl.dx) ELSE err1,
                        !.n = @ + 1]

\* the iteration as a step of the renderer; the run is followed for
\* 2^IntWidth moves, more than any two ints are apart
LineStep ==
    /\ dl.pc = "loop"
    /\ dl.n < 2 ^ IntWidth
    /\ cvs' = [cvs EXCEPT ![renderer.canvas] =
                             CanvasSet(@, dl.x, dl.y, GetCharForFeature("River"),
                                       GetStyleForFeature("River"))]
    /\ dl' = LineStepped
    /\ lastOp' = "DrawLine"
    /\ UNCHANGED <<heap, hist, after, aircraft, mu, timeout, removed, upc, uac,
                   dirty>>
    /\ UNCHANGED <<renderVars, first, mapFeatures, listView, detailView,
                   currentView, quit, projs, mapView, renderer, writes,
                   req, now, nextTick, clientVars, appVars>>

LineNext ==
    \/ \E x0 \in LineFrom, y0 \in LineFrom, x1 \in Ints, y1 \in Ints :
          LineBegin(x0, y0, x1, y1)
    \/ LineStep

LineSpec == Init /\ [][LineNext]_vars

---------------------------------------------------------------------------
(* Claims *)

\* the most recent non-zero value of field f among the records rs, the zero
\* value when there is none
RECURSIVE LatestSupplied(_, _)
LatestSupplied(rs, f) ==
    IF rs = <<>> THEN ZeroOf(f)
    ELSE IF rs[Len(rs)][f] # ZeroOf(f) THEN rs[Len(rs)][f]
    ELSE LatestSupplied(SubSeq(rs, 1, Len(rs) - 1), f)

\* C1: whenever no Update is in progress, the tracker holds one entry per
\* ICAO it was given (and not swept since), distinct ICAOs have distinct
\* entries, and each merged field of an entry is the most recent non-empty /
\* non-zero / non-nil value among the records applied to the entry since it
\* was created: an empty, zero or nil field of a record changes nothing.
C1_LastNonNullWins ==
    mu = "free" =>
        /\ \A k \in DOMAIN aircraft :
              /\ heap[aircraft[k]].ICAO = k
              /\ \A i \in 1..Len(hist[aircraft[k]]) :
                    hist[aircraft[k]][i].ICAO = k
              /\ \A i \in 1..Len(Fields) :
                    heap[aircraft[k]][Fields[i]] =
                        LatestSupplied(hist[aircraft[k]], Fields[i])
        /\ \A k1, k2 \in DOMAIN aircraft :
              k1 # k2 => aircraft[k1] # aircraft[k2]
        /\ (lastOp = "Update" /\ uac.ICAO # ICAO_Empty) =>
              uac.ICAO \in DOMAIN aircraft

\* C1's scenario: A1 with a position, then speed 300, then a new position
C1_Witness ==
    /\ mu = "free"
    /\ ICAO_A1 \in DOMAIN aircraft
    /\ Len(hist[aircraft[ICAO_A1]]) = 3
    /\ hist[aircraft[ICAO_A1]][1].Latitude = Ptr(400)
    /\ hist[aircraft[ICAO_A1]][2].Speed = 300
    /\ hist[aircraft[ICAO_A1]][2].Latitude = NilF
    /\ hist[aircraft[ICAO_A1]][3].Latitude = Ptr(401)
    /\ hist[aircraft[ICAO_A1]][3].Speed = 0
    /\ heap[aircraft[ICAO_A1]].Latitude = Ptr(401)
    /\ heap[aircraft[ICAO_A1]].Longitude = Ptr(-1001)
    /\ heap[aircraft[ICAO_A1]].Speed = 300

\* the entry that results from merging the records rs, all of them whole
Merged(rs) ==
    [f \in DOMAIN rs[1] |->
        IF f = "ICAO" THEN rs[1].ICAO
        ELSE IF f = "LastSeen" THEN rs[Len(rs)].LastSeen
        ELSE LatestSupplied(rs, f)]

\* C2: what the render loop reads of an entry through the slice GetAll
\* returned is the entry as it was after some whole number of records had
\* been merged into it, never an entry with only part of a record merged.
C2_NoPartialMerge ==
    seen # <<>> =>
        \E n \in 1..Len(hist[seen[1]]) :
            seen[2] = Merged(SubSeq(hist[seen[1]], 1, n))

\* C3: a step that is not a GetAll (the returned slice stays as it is)
\* changes no field value readable through the returned slice.
C3_DefensiveCopy ==
    [][snap' = snap =>
          \A i \in 1..Len(snap) : heap'[snap[i]] = heap[snap[i]]]_vars

\* the ICAOs of the entries of a slice, in its order
KeysOf(s) == [i \in 1..Len(s) |-> heap[s[i]].ICAO]

\* slice s lists every entry of the map once, in ascending ICAO order
SortedListing(s) ==
    /\ Len(s) = Cardinality(DOMAIN aircraft)
    /\ \A k \in DOMAIN aircraft : \E i \in 1..Len(s) : s[i] = aircraft[k]
    /\ \A i \in 1..Len(s) - 1 : StrLess(KeysOf(s)[i], KeysOf(s)[i + 1])

\* C4: as long as no Update or PruneStale has run since, the slice GetAll
\* returned lists every tracked entry exactly once in strictly ascending
\* ICAO order, and a second GetAll returns the same keys in the same order.
C4_GetAllSorted ==
    [][/\ ~dirty' => SortedListing(snap)'
       /\ (~dirty /\ ~dirty') => KeysOf(snap)' = KeysOf(snap)]_vars

\* a GetAll that returned three entries
C4_Witness ==
    /\ lastOp = "GetAll"
    /\ ~dirty
    /\ Len(snap) = 3
    /\ KeysOf(snap) = <<ICAO_A, ICAO_A1, ICAO_B>>

\* C5: a PruneStale step at time now removes exactly the entries with
\* now - LastSeen >= 60, leaves the other entries and every object as they
\* were, and returns the number of entries it removed.
C5_PruneExact ==
    [][lastOp' = "PruneStale" =>
          /\ DOMAIN aircraft' =
                {k \in DOMAIN aircraft : now - heap[aircraft[k]].LastSeen < 60}
          /\ \A k \in DOMAIN aircraft' : aircraft'[k] = aircraft[k]
          /\ heap' = heap
          /\ removed' = Cardinality(DOMAIN aircraft)
                            - Cardinality(DOMAIN aircraft')]_vars

\* a PruneStale that removed an entry aged exactly 60s and kept one aged 59s
C5_Witness ==
    /\ lastOp = "PruneStale"
    /\ removed = 1
    /\ \E k \in DOMAIN aircraft : now - heap[aircraft[k]].LastSeen = 59
    /\ \E r \in 1..Len(heap) :
          /\ now - heap[r].LastSeen = 60
          /\ \A k \in DOMAIN aircraft : aircraft[k] # r

\* C7: a PruneStale step removes exactly the entries whose age is at least
\* the tracker's timeout.
C7_StaleAtTimeout ==
    [][lastOp' = "PruneStale" =>
          DOMAIN aircraft' =
              {k \in DOMAIN aircraft :
                  now - heap[aircraft[k]].LastSeen < timeout}]_vars

\* the latest object created for the ICAO of object r
Latest(r) == \A q \in 1..Len(heap) : heap[q].ICAO = heap[r].ICAO => q <= r

\* the slice the render loop holds has an entry for the ICAO of object r
InSnap(r) == \E i \in 1..Len(snap) : heap[snap[i]].ICAO = heap[r].ICAO

\* C6 as stated: a GetAll at T+59 returns the entry last updated at T, and
\* a GetAll at T+61 does not.
C6_AbsentAt61 ==
    lastOp = "GetAll" =>
        \A r \in 1..Len(heap) :
            Latest(r) =>
                /\ now - heap[r].LastSeen = 59 => InSnap(r)
                /\ now - heap[r].LastSeen = 61 => ~InSnap(r)

\* C6, amended: with the sweep every 10s, a GetAll up to T+59 returns the
\* entry last updated at T, and a GetAll at T+70 or later does not.
C6_AbsentAfterSweep ==
    lastOp = "GetAll" =>
        \A r \in 1..Len(heap) :
            Latest(r) =>
                /\ now - heap[r].LastSeen <= 59 => InSnap(r)
                /\ now - heap[r].LastSeen >= 70 => ~InSnap(r)

\* a GetAll at T+70 that no longer returns the entry, swept at T+69
C6_Witness ==
    /\ lastOp = "GetAll"
    /\ Len(heap) = 1
    /\ heap[1].LastSeen = 1
    /\ now = 71
    /\ snap = <<>>

\* C8: msgChan and errChan are closed only once the connection is closed,
\* done is closed and readLoop has returned, and readLoop never sends on a
\* closed channel.
C8_CloseAfterReadLoop ==
    /\ (msgClosed \/ errClosed) =>
          conn = "closed" /\ doneClosed /\ rlpc = "exited"
    /\ panicked # "send on closed channel"

\* the channels are closed, with a record still buffered, after readLoop
\* has returned
C8_Witness ==
    /\ msgClosed
    /\ errClosed
    /\ msgChan # <<>>
    /\ rlpc = "exited"
    /\ panicked = ""

\* every goroutine of the application has returned and cleanup's Close too
AllTerminated ==
    /\ prpc = "exited"
    /\ rmpc = "exited"
    /\ rlpc = "exited"
    /\ cpc["cleanup"] = "ret"

\* C9: once cleanup has cancelled the context, the pruning goroutine,
\* readMessages and readLoop all terminate in the end and Close returns.
C9_ShutdownTerminates == cancelled ~> AllTerminated

\* C10: whatever calls of Close are made, one after another or together,
\* the connection is closed at most once, the process is killed at most
\* once, the channels are closed at most once and nothing panics.
C10_CloseOnce ==
    /\ connCloses <= 1
    /\ kills <= 1
    /\ panicked = ""
    /\ (\E c \in Closers : cpc[c] = "ret") =>
          /\ connCloses = 1
          /\ kills = (IF isLocalCLI THEN 1 ELSE 0)
          /\ msgClosed
          /\ errClosed

\* both calls of Close have returned, the second having begun while the
\* first ran
C10_Witness ==
    /\ \A c \in Closers : cpc[c] = "ret"
    /\ connCloses = 1
    /\ kills = 1
    /\ msgClosed
    /\ errClosed
    /\ apc = "close"

\* C11: an error that readLoop reports (the read failed) is received by the
\* App in the end: it does not stay in errChan for ever.
C11_ErrorSurfaced == (errChan # <<>>) ~> (errChan = <<>>)

\* the records the lines sc decode to, in the order of the lines
RECURSIVE Decoded(_)
Decoded(sc) ==
    IF sc = <<>> THEN <<>>
    ELSE LET res == Parse(sc[Len(sc)][1], sc[Len(sc)][2])
             rest == Decoded(SubSeq(sc, 1, Len(sc) - 1))
         IN  IF ~res[2] /\ res[1] # NilAircraft THEN Append(rest, res[1])
             ELSE rest

\* the records of rs that carry ICAO k, in their order
RECURSIVE WithICAO(_, _)
WithICAO(rs, k) ==
    IF rs = <<>> THEN <<>>
    ELSE IF rs[Len(rs)].ICAO = k
         THEN Append(WithICAO(SubSeq(rs, 1, Len(rs) - 1), k), rs[Len(rs)])
         ELSE WithICAO(SubSeq(rs, 1, Len(rs) - 1), k)

\* the decoded records readLoop has sent so far: all but the one it holds
Sent ==
    IF rlpc = "send" THEN SubSeq(Decoded(scanned), 1, Len(Decoded(scanned)) - 1)
    ELSE Decoded(scanned)

\* C12: the records published on msgChan and applied to the tracker are, in
\* input order, exactly the records of the lines that decode: a line that
\* fails to decode publishes nothing, changes no entry and does not stop
\* the lines after it from being decoded, published and applied.
C12_BadLineSkipped ==
    LET n == Len(Sent) - Len(msgChan) IN
    /\ n >= 0
    /\ msgChan = SubSeq(Sent, n + 1, Len(Sent))
    /\ rlpc = "send" =>
          /\ Decoded(scanned) # <<>>
          /\ rlAc = Decoded(scanned)[Len(Decoded(scanned))]
    /\ DOMAIN aircraft = {Sent[i].ICAO : i \in 1..n}
    /\ \A k \in DOMAIN aircraft :
          hist[aircraft[k]] = WithICAO(SubSeq(Sent, 1, n), k)
    /\ Len(heap) = Cardinality(DOMAIN aircraft)

\* a line of 3 fields, then a line without ICAO, then the line of A1 at 300
\* knots, which has been applied to the tracker
C12_Witness ==
    /\ Len(scanned) = 3
    /\ Parse(scanned[1][1], 0)[2]
    /\ Len(scanned[1][1]) = 3
    /\ Parse(scanned[2][1], 0)[2]
    /\ Len(scanned[2][1]) = 22
    /\ DOMAIN aircraft = {ICAO_A1}
    /\ heap[aircraft[ICAO_A1]].Speed = 300
    /\ Len(hist[aircraft[ICAO_A1]]) = 1
    /\ msgChan = <<>>

\* C13: a call of Update with nil or with a record whose ICAO is empty
\* creates, removes and changes no entry, takes no lock and panics not.
C13_EmptyUpdateNoop ==
    [][(lastOp' = "Update" /\ upc = 0
           /\ (uac' = NilAircraft \/ uac'.ICAO = ICAO_Empty)) =>
          /\ UNCHANGED <<heap, aircraft, mu, upc, removed, panicked>>
          /\ ICAO_Empty \notin DOMAIN aircraft']_vars

\* Update was called with a record that has a position but no ICAO, while
\* A1 is tracked
C13_Witness ==
    /\ lastOp = "Update"
    /\ upc = 0
    /\ uac # NilAircraft
    /\ uac.ICAO = ICAO_Empty
    /\ uac.Latitude = Ptr(400)
    /\ DOMAIN aircraft = {ICAO_A1}

\* records a and b agree on every field but LastSeen
SameButTime(a, b) == \A f \in DOMAIN a \ {"LastSeen"} : a[f] = b[f]

\* C15: when the same record (up to its time stamp) is applied to an entry
\* twice in a row, the entry after the second Update equals the entry after
\* the first in every field but LastSeen, whether the first application
\* created the entry or merged into it.
C15_MergeIdempotent ==
    mu = "free" =>
        \A r \in 1..Len(heap) :
            /\ Len(after[r]) = Len(hist[r])
            /\ \A i \in 2..Len(hist[r]) :
                  SameButTime(hist[r][i], hist[r][i - 1]) =>
                      SameButTime(after[r][i], after[r][i - 1])

\* A1 created with a position, then speed 300 merged twice in a row
C15_Witness ==
    /\ mu = "free"
    /\ ICAO_A1 \in DOMAIN aircraft
    /\ Len(hist[aircraft[ICAO_A1]]) = 3
    /\ hist[aircraft[ICAO_A1]][1].Latitude = Ptr(400)
    /\ hist[aircraft[ICAO_A1]][2].Speed = 300
    /\ SameButTime(hist[aircraft[ICAO_A1]][3], hist[aircraft[ICAO_A1]][2])
    /\ heap[aircraft[ICAO_A1]].Speed = 300
    /\ heap[aircraft[ICAO_A1]].Latitude = Ptr(400)

\* C16: the entry's LastSeen is the LastSeen of the latest record applied
\* to it, from the first write of Update on, and every Update left the
\* entry with the LastSeen of its record, older than the stored one or not.
C16_LastSeenRefreshed ==
    \A r \in 1..Len(heap) :
        /\ heap[r].LastSeen = hist[r][Len(hist[r])].LastSeen
        /\ \A i \in 1..Len(after[r]) :
              after[r][i].LastSeen = hist[r][i].LastSeen

\* an entry created at 60 and then updated by records stamped 0 and 60
C16_Witness ==
    /\ mu = "free"
    /\ Len(heap) = 1
    /\ Len(after[1]) = 3
    /\ after[1][1].LastSeen = 60
    /\ after[1][2].LastSeen = 0
    /\ heap[1].LastSeen = 60

\* the ICAOs of the tracked aircraft with a locked position
LockedKeys == {k \in DOMAIN aircraft : PositionLocked(heap[aircraft[k]])}

\* C17: GetFirstWithPosition returns nil when no tracked aircraft has a
\* locked position, and otherwise the tracked aircraft with the smallest
\* ICAO among those that have one, whatever the order of the map.
C17_FirstLockedByICAO ==
    lastOp = "GetFirstWithPosition" =>
        IF LockedKeys = {} THEN first = 0
        ELSE /\ first \in {aircraft[k] : k \in LockedKeys}
             /\ \A k \in LockedKeys :
                   k = heap[first].ICAO \/ StrLess(heap[first].ICAO, k)

\* A without longitude, A1 and B locked, B inserted first: A1 is returned
C17_Witness ==
    /\ lastOp = "GetFirstWithPosition"
    /\ DOMAIN aircraft = {ICAO_A, ICAO_A1, ICAO_B}
    /\ LockedKeys = {ICAO_A1, ICAO_B}
    /\ heap[aircraft[ICAO_A]].Latitude = Ptr(402)
    /\ aircraft[ICAO_B] = 1
    /\ first = aircraft[ICAO_A1]

\* the projection the view holds
Proj == projs[mapView.projection]

\* C14: after a construction, resize or zoom request with a non-positive
\* radius, grid width or grid height, the projection in effect is still a
\* valid one: its radius, width and height are positive.
C14_InvalidRejected ==
    (req.radiusMiles <= 0 \/ req.width <= 0 \/ req.height <= 0) =>
        (Proj.radiusMiles > 0 /\ Proj.screenWidth > 0 /\ Proj.screenHeight > 0)

\* the symbol the claim gives for direction d in 0..359
SymbolOf(d) ==
    IF d \in 338..359 \cup 0..22 THEN 94
    ELSE IF d \in 23..67 THEN 9488
    ELSE IF d \in 68..112 THEN 62
    ELSE IF d \in 113..157 THEN 9496
    ELSE IF d \in 158..202 THEN 118
    ELSE IF d \in 203..247 THEN 9492
    ELSE IF d \in 248..292 THEN 60
    ELSE 9484

\* C19: the symbol of every aircraft is the one of the 8 arrows that the
\* claim's table gives for its track, or for its heading when the track is
\* 0, taken modulo 360 into 0..359; it is never the fallback, and with
\* track and heading 0 it is the arrow of north.
C19_CardinalDirection ==
    \A r \in 1..Len(heap) :
        /\ CardinalDirection(heap[r]) =
              SymbolOf((IF heap[r].Track # 0 THEN heap[r].Track
                        ELSE heap[r].Heading) % 360)
        /\ \E i \in 1..8 : CardinalDirection(heap[r]) = Arrows[i]
        /\ (heap[r].Track = 0 /\ heap[r].Heading = 0) =>
              CardinalDirection(heap[r]) = 94

\* an aircraft with track -400 (320 degrees, north-west) was read
C19_Witness ==
    /\ seen # <<>>
    /\ seen[2].Track = 0 - 400
    /\ CardinalDirection(seen[2]) = 9484

\* the canvas the renderer draws on
Canvas == cvs[renderer.canvas]

\* the aircraft of the snapshot that have both a latitude and a longitude
LockedOnly ==
    SelectSeq(Snapshot, LAMBDA a : a.Latitude # NilF /\ a.Longitude # NilF)

\* the Set calls of the latest Draw made by the aircraft layer
AircraftWrites == SelectSeq(writes, LAMBDA w : w.layer = "Aircraft")

\* C18: after a Draw, the canvas is the one that drawing the map and only
\* the position-locked aircraft of the snapshot gives, the aircraft layer
\* made one Set call per position-locked aircraft, and nothing panicked:
\* an aircraft without latitude or longitude changed no cell.
C18_UnlockedNeverDrawn ==
    lastOp = "Draw" =>
        /\ Canvas = DrawLayers(CanvasClear(Canvas), projs[renderer.projection],
                               mapFeatures, LockedOnly, req.selectedICAO).cv
        /\ Len(AircraftWrites) = Len(LockedOnly)
        /\ panicked = ""

\* a frame with A1 holding a latitude alone and B over the airport: B is
\* drawn, heading east, and A1 is not
C18_Witness ==
    /\ lastOp = "Draw"
    /\ Len(snap) = 2
    /\ Snapshot[1].Latitude = Ptr(402)
    /\ Snapshot[1].Longitude = NilF
    /\ Len(AircraftWrites) = 1
    /\ Canvas.cells[<<8, 2>>] = [Char |-> 62, Style |-> StyleAircraft]

\* the rank of a layer in the order of a frame
LayerRank(layer) ==
    CASE layer = "Coastline" -> 1
      [] layer = "River" -> 2
      [] layer = "StateBorder" -> 3
      [] layer = "Highway" -> 4
      [] layer = "Places" -> 5
      [] layer = "Aircraft" -> 6

\* the Set calls of the latest Draw that fall on cell k of the canvas
WritesAt(k) == SelectSeq(writes, LAMBDA w : <<w.x, w.y>> = k)

\* C20: within a frame the Set calls come layer after layer in the order
\* coastline, river, state border, highway, cities and airports, aircraft;
\* every cell of the canvas holds what the last call on it wrote, a blank
\* when there was none; and the cell a position-locked aircraft projects
\* to holds one of the 8 arrows in the aircraft or the selected style.
C20_LayerOrder ==
    lastOp = "Draw" =>
        /\ \A i \in 1..(Len(writes) - 1) :
              LayerRank(writes[i].layer) <= LayerRank(writes[i + 1].layer)
        /\ \A k \in DOMAIN Canvas.cells :
              Canvas.cells[k] =
                  IF WritesAt(k) = <<>> THEN BlankCell
                  ELSE WritesAt(k)[Len(WritesAt(k))].cell
        /\ \A i \in 1..Len(LockedOnly) :
              LET pt == Project(projs[renderer.projection],
                                LockedOnly[i].Latitude[1],
                                LockedOnly[i].Longitude[1])
              IN  <<pt.X, pt.Y>> \in DOMAIN Canvas.cells =>
                      /\ \E j \in 1..8 :
                            Canvas.cells[<<pt.X, pt.Y>>].Char = Arrows[j]
                      /\ Canvas.cells[<<pt.X, pt.Y>>].Style
                            \in {StyleAircraft, StyleSelected}

\* a frame in which A1, selected, covers the first letter of the label of
\* the city "Ab", B covers the airport "K", the river covers the coastline
\* and the highway covers the border, which covered the river
C20_Witness ==
    /\ lastOp = "Draw"
    /\ Len(LockedOnly) = 2
    /\ \E i \in 1..Len(writes) :
          /\ writes[i].layer = "Places"
          /\ <<writes[i].x, writes[i].y>> = <<4, 3>>
          /\ writes[i].cell.Char = 65
    /\ Canvas.cells[<<4, 3>>] = [Char |-> 94, Style |-> StyleSelected]
    /\ Canvas.cells[<<5, 3>>] = [Char |-> 98, Style |-> StyleLabel]
    /\ Canvas.cells[<<8, 2>>] = [Char |-> 62, Style |-> StyleAircraft]
    /\ Canvas.cells[<<9, 2>>] = [Char |-> 75, Style |-> StyleLabel]
    /\ Canvas.cells[<<6, 1>>] = [Char |-> 126, Style |-> StyleRiver]
    /\ Canvas.cells[<<6, 3>>] = [Char |-> 61, Style |-> StyleHighway]
    /\ Len(WritesAt(<<6, 3>>)) = 3

\* the cities and the airports in view, and the cell a point feature
\* projects to
VisibleCities == Visible(mapFeatures, "City", GetBounds(Proj))
VisibleAirports == Visible(mapFeatures, "Airport", GetBounds(Proj))
CellOf(f) == Project(Proj, f.Point[1].Lat, f.Point[1].Lon)

\* the collision tolerances: the airport on the same row within 5 columns,
\* or within 1 row and 3 columns
Collides(c, a) ==
    \/ a.Y = c.Y /\ Abs(a.X - c.X) <= 5
    \/ Abs(a.Y - c.Y) <= 1 /\ Abs(a.X - c.X) <= 3

\* some airport in view is within a tolerance of city c
Crowded(c) ==
    \E i \in 1..Len(VisibleAirports) :
        Collides(CellOf(c), CellOf(VisibleAirports[i]))

\* the cities and airports wrote text as a label from cell (x, y) on, each
\* character at the offset of its first byte
LabelWritten(text, x, y) ==
    \E k \in 0..(Len(writes) - Len(text)) :
        \A j \in 1..Len(text) :
            writes[k + j] = [layer |-> "Places",
                             x |-> x + ByteLen(SubSeq(text, 1, j - 1)),
                             y |-> y,
                             cell |-> [Char |-> text[j],
                                       Style |-> StyleLabel]]

\* no Set call wrote a character of text, and no cell shows one
NothingOf(text) ==
    /\ \A k \in 1..Len(writes) :
          \A j \in 1..Len(text) : writes[k].cell.Char # text[j]
    /\ \A c \in DOMAIN Canvas.cells :
          \A j \in 1..Len(text) : Canvas.cells[c].Char # text[j]

\* C21: after a frame, a city in view that has an airport in view on its
\* row within 5 columns, or within 1 row and 3 columns, has no label: no
\* character of its name was written and none is on the canvas.
C21_CrowdedCitySuppressed ==
    lastOp = "Draw" =>
        \A i \in 1..Len(VisibleCities) :
            Crowded(VisibleCities[i]) => NothingOf(VisibleCities[i].Name)

\* the city at (10,5) with the airport at (12,5): the airport and its label
\* are drawn, the city is not
C21_Witness ==
    /\ lastOp = "Draw"
    /\ Len(VisibleCities) = 1 /\ Len(VisibleAirports) = 1
    /\ CellOf(VisibleCities[1]) = [X |-> 10, Y |-> 5]
    /\ CellOf(VisibleAirports[1]) = [X |-> 12, Y |-> 5]
    /\ Canvas.cells[<<10, 5>>] = BlankCell
    /\ Canvas.cells[<<12, 5>>] = [Char |-> 64, Style |-> StyleAirport]
    /\ Canvas.cells[<<13, 5>>] = [Char |-> 75, Style |-> StyleLabel]

\* the '@' of every airport in view was written on its cell
AirportsWritten ==
    \A i \in 1..Len(VisibleAirports) :
        \E k \in 1..Len(writes) :
            writes[k] = [layer |-> "Places",
                         x |-> CellOf(VisibleAirports[i]).X,
                         y |-> CellOf(VisibleAirports[i]).Y,
                         cell |-> [Char |-> 64, Style |-> StyleAirport]]

\* C22 as stated: after a frame, every named city in view with no airport
\* in view inside a tolerance has its label written from its cell on,
\* wherever on the grid it is, and the airports are written as well.
C22_FreeCityDrawn ==
    lastOp = "Draw" =>
        \A i \in 1..Len(VisibleCities) :
            (VisibleCities[i].Name # EmptyString
             /\ ~Crowded(VisibleCities[i])) =>
                /\ LabelWritten(VisibleCities[i].Name,
                                CellOf(VisibleCities[i]).X,
                                CellOf(VisibleCities[i]).Y)
                /\ AirportsWritten

\* a label of text starting at column x is "not too close to the edge"
FarFromEdge(x, text) == x < Canvas.width - ByteLen(text) - 1

\* C22 as amended: such a city has its label written exactly when its
\* column is less than the width minus the length of the name (in bytes)
\* minus 1; nearer to the right edge no character of it is written; the
\* airports are written in both cases.
C22_FreeCityDrawnOffEdge ==
    lastOp = "Draw" =>
        \A i \in 1..Len(VisibleCities) :
            (VisibleCities[i].Name # EmptyString
             /\ ~Crowded(VisibleCities[i])) =>
                /\ IF FarFromEdge(CellOf(VisibleCities[i]).X,
                                  VisibleCities[i].Name)
                   THEN LabelWritten(VisibleCities[i].Name,
                                     CellOf(VisibleCities[i]).X,
                                     CellOf(VisibleCities[i]).Y)
                   ELSE NothingOf(VisibleCities[i].Name)
                /\ AirportsWritten

\* the airport at (10,5) and the city at (30,5): both are on the canvas
C22_Witness ==
    /\ lastOp = "Draw"
    /\ Len(VisibleCities) = 1 /\ Len(VisibleAirports) = 1
    /\ CellOf(VisibleCities[1]) = [X |-> 30, Y |-> 5]
    /\ CellOf(VisibleAirports[1]) = [X |-> 10, Y |-> 5]
    /\ Canvas.cells[<<30, 5>>] = [Char |-> 65, Style |-> StyleLabel]
    /\ Canvas.cells[<<31, 5>>] = [Char |-> 98, Style |-> StyleLabel]
    /\ Canvas.cells[<<10, 5>>] = [Char |-> 64, Style |-> StyleAirport]
    /\ Canvas.cells[<<11, 5>>] = [Char |-> 75, Style |-> StyleLabel]

\* what airport a puts on the j-th cell from its own (j = 0: its symbol,
\* j >= 1: the j-th character of its label)
AirportCell(a, j) ==
    IF j = 0 THEN [Char |-> 64, Style |-> StyleAirport]
    ELSE [Char |-> a.Name[j], Style |-> StyleLabel]

\* the column of that cell: the label begins one column right of the
\* symbol, each character at the offset of its first byte
AirportColumn(a, j) ==
    IF j = 0 THEN CellOf(a).X
    ELSE CellOf(a).X + 1 + ByteLen(SubSeq(a.Name, 1, j - 1))

\* C23 as stated: after a frame the cell of every airport in view holds
\* '@' in the airport style and the cells at its right hold its label.
C23_AirportAlwaysDrawn ==
    lastOp = "Draw" =>
        \A i \in 1..Len(VisibleAirports) :
            \A j \in 0..Len(VisibleAirports[i].Name) :
                LET k == <<AirportColumn(VisibleAirports[i], j),
                           CellOf(VisibleAirports[i]).Y>>
                IN  k \in DOMAIN Canvas.cells =>
                        Canvas.cells[k] = AirportCell(VisibleAirports[i], j)

\* the cells airport a writes: its own, and those of its label when it is
\* far enough from the right edge
AirportSpan(a) ==
    IF a.Name # EmptyString /\ FarFromEdge(CellOf(a).X, a.Name)
    THEN 0..Len(a.Name) ELSE {0}

\* C23 as amended: every airport in view writes '@' on its cell, and its
\* label on the cells at its right exactly when its column is less than the
\* width minus the length of the label (in bytes) minus 1; after the frame
\* each of those cells holds what the airport wrote unless an airport later
\* in the list wrote its symbol or label there; cities never replace them.
C23_AirportDrawnOffEdge ==
    lastOp = "Draw" =>
        /\ AirportsWritten
        /\ \A i \in 1..Len(VisibleAirports) :
              LET a == VisibleAirports[i] IN
              /\ IF 1 \in AirportSpan(a)
                 THEN LabelWritten(a.Name, CellOf(a).X + 1, CellOf(a).Y)
                 ELSE NothingOf(a.Name)
              /\ \A j \in AirportSpan(a) :
                    LET k == <<AirportColumn(a, j), CellOf(a).Y>> IN
                    k \in DOMAIN Canvas.cells =>
                        \/ Canvas.cells[k] = AirportCell(a, j)
                        \/ \E i2 \in (i + 1)..Len(VisibleAirports) :
                              \E j2 \in AirportSpan(VisibleAirports[i2]) :
                                  /\ AirportColumn(VisibleAirports[i2], j2)
                                        = k[1]
                                  /\ CellOf(VisibleAirports[i2]).Y = k[2]
                                  /\ Canvas.cells[k] =
                                        AirportCell(VisibleAirports[i2], j2)

\* the airports "K" at (10,5) and "J" at (11,5) with the city at (7,4),
\* inside the tolerance of K: both airports are on the canvas, J's symbol
\* on the cell of K's label, and the city is not
C23_Witness ==
    /\ lastOp = "Draw"
    /\ Len(VisibleAirports) = 2 /\ Len(VisibleCities) = 1
    /\ CellOf(VisibleCities[1]) = [X |-> 7, Y |-> 4]
    /\ Canvas.cells[<<7, 4>>] = BlankCell
    /\ Canvas.cells[<<10, 5>>] = [Char |-> 64, Style |-> StyleAirport]
    /\ Canvas.cells[<<11, 5>>] = [Char |-> 64, Style |-> StyleAirport]
    /\ Canvas.cells[<<12, 5>>] = [Char |-> 74, Style |-> StyleLabel]

\* C24: after a frame, every cell in the selected style is the cell a
\* position-locked aircraft of the slice with the selected ICAO projects to,
\* and every Set call in that style was made for such an aircraft; with the
\* empty identifier selected, no cell is in the selected style.
C24_SelectedOnly ==
    lastOp = "Draw" =>
        /\ \A k \in DOMAIN Canvas.cells :
              Canvas.cells[k].Style = StyleSelected =>
                  \E i \in 1..Len(LockedOnly) :
                      /\ LockedOnly[i].ICAO = req.selectedICAO
                      /\ Project(Proj, LockedOnly[i].Latitude[1],
                                 LockedOnly[i].Longitude[1])
                            = [X |-> k[1], Y |-> k[2]]
        /\ \A n \in 1..Len(writes) :
              writes[n].cell.Style = StyleSelected =>
                  \E i \in 1..Len(LockedOnly) :
                      /\ LockedOnly[i].ICAO = req.selectedICAO
                      /\ Project(Proj, LockedOnly[i].Latitude[1],
                                 LockedOnly[i].Longitude[1])
                            = [X |-> writes[n].x, Y |-> writes[n].y]
        /\ req.selectedICAO = EmptyString =>
              \A k \in DOMAIN Canvas.cells :
                  Canvas.cells[k].Style # StyleSelected

\* a frame with B selected: B, over the airport, is in the selected style
\* and A1 in the aircraft style
C24_Witness ==
    /\ lastOp = "Draw"
    /\ req.selectedICAO = ICAO_B
    /\ Len(LockedOnly) = 2
    /\ Canvas.cells[<<8, 2>>] = [Char |-> 62, Style |-> StyleSelected]
    /\ Canvas.cells[<<4, 3>>] = [Char |-> 94, Style |-> StyleAircraft]

\* cell k lies on the grid of the canvas
OnGrid(k) ==
    k[1] >= 0 /\ k[1] < Canvas.width /\ k[2] >= 0 /\ k[2] < Canvas.height

\* C25: Canvas.Set outside columns 0..width-1 or rows 0..height-1 leaves the
\* canvas as it was, inside them it changes the addressed cell and no
\* other; DrawText changes the cells on which a character of the text
\* falls (at the column of its first byte) and no other; neither fails, and
\* the grid keeps its size.
C25_SetClips ==
    [][/\ lastOp' = "Set" =>
            /\ Canvas' = IF OnGrid(<<req'.x0, req'.y0>>)
                         THEN [Canvas EXCEPT !.cells[<<req'.x0, req'.y0>>] =
                                  [Char |-> 46, Style |-> req'.style]]
                         ELSE Canvas
            /\ OnGrid(<<req'.x0, req'.y0>>) =>
                  /\ <<req'.x0, req'.y0>> \in DOMAIN Canvas.cells
                  /\ \A k \in DOMAIN Canvas.cells \ {<<req'.x0, req'.y0>>} :
                        Canvas'.cells[k] = Canvas.cells[k]
            /\ panicked' = panicked
       /\ lastOp' = "DrawText" =>
            /\ DOMAIN Canvas'.cells = DOMAIN Canvas.cells
            /\ \A k \in DOMAIN Canvas.cells :
                  Canvas'.cells[k] =
                      IF k[2] = req'.y0
                         /\ \E j \in 1..Len(req'.text) :
                               req'.x0 + ByteLen(SubSeq(req'.text, 1, j - 1))
                                  = k[1]
                      THEN [Char |->
                               req'.text[
                                   CHOOSE j \in 1..Len(req'.text) :
                                       req'.x0
                                         + ByteLen(SubSeq(req'.text, 1, j - 1))
                                          = k[1]],
                            Style |-> req'.style]
                      ELSE Canvas.cells[k]
            /\ Canvas'.width = Canvas.width /\ Canvas'.height = Canvas.height
            /\ panicked' = panicked]_vars

\* Set(2, 2) and then Set(-5, -5): the canvas holds the '.' at (2,2) and
\* blanks elsewhere
C25_Witness ==
    /\ lastOp = "Set"
    /\ req.x0 = 0 - 5 /\ req.y0 = 0 - 5
    /\ Len(writes) = 2
    /\ writes[1].x = 2 /\ writes[1].y = 2
    /\ \A k \in DOMAIN Canvas.cells :
          Canvas.cells[k] = IF k = <<2, 2>>
                            THEN [Char |-> 46, Style |-> StyleCity]
                            ELSE BlankCell

\* the Set calls made by the latest call on the canvas
NewWrites == SubSeq(writes', Len(writes) + 1, Len(writes'))

\* C26: DrawLine from (x0,y0) to (x1,y1) makes max(|x1-x0|, |y1-y0|) + 1
\* Set calls with the symbol and style, the first on (x0,y0), the last on
\* (x1,y1), all on different cells inside the rectangle the endpoints span,
\* each next to the one before (8 neighbours); the cells of the canvas they
\* fall on hold the symbol, the others are unchanged.
C26_DrawLine ==
    [][lastOp' = "DrawLine" =>
        LET n == Len(NewWrites)
            x0 == req'.x0
            y0 == req'.y0
            x1 == req'.x1
            y1 == req'.y1
            cell == [Char |-> 120, Style |-> req'.style]
            hit(k) == \E i \in 1..n : <<NewWrites[i].x, NewWrites[i].y>> = k
        IN  /\ n = Max(Abs(x1 - x0), Abs(y1 - y0)) + 1
            /\ <<NewWrites[1].x, NewWrites[1].y>> = <<x0, y0>>
            /\ <<NewWrites[n].x, NewWrites[n].y>> = <<x1, y1>>
            /\ \A i \in 1..n :
                  /\ NewWrites[i].cell = cell
                  /\ NewWrites[i].x \in Min(x0, x1)..Max(x0, x1)
                  /\ NewWrites[i].y \in Min(y0, y1)..Max(y0, y1)
            /\ \A i, j \in 1..n :
                  i # j => <<NewWrites[i].x, NewWrites[i].y>>
                              # <<NewWrites[j].x, NewWrites[j].y>>
            /\ \A i \in 1..(n - 1) :
                  Max(Abs(NewWrites[i + 1].x - NewWrites[i].x),
                      Abs(NewWrites[i + 1].y - NewWrites[i].y)) = 1
            /\ SubSeq(writes', 1, Len(writes)) = writes
            /\ DOMAIN Canvas'.cells = DOMAIN Canvas.cells
            /\ \A k \in DOMAIN Canvas.cells :
                  Canvas'.cells[k] = IF hit(k) THEN cell ELSE Canvas.cells[k]
      ]_vars

\* DrawLine((0,0), (4,0)) on a canvas holding a '.' at (2,2): row 0 holds
\* the symbol in columns 0 to 4, (2,2) holds the '.', the rest is blank
C26_Witness ==
    /\ lastOp = "DrawLine"
    /\ <<req.x0, req.y0, req.x1, req.y1>> = <<0, 0, 4, 0>>
    /\ Len(writes) = 6
    /\ \A k \in DOMAIN Canvas.cells :
          Canvas.cells[k] =
              IF k[2] = 0 /\ k[1] \in 0..4
              THEN [Char |-> 120, Style |-> StyleHighway]
              ELSE IF k = <<2, 2>> THEN [Char |-> 46, Style |-> StyleCity]
              ELSE BlankCell

\* (lat, lon) lies within the bounds, edges included
Within(b, ll) ==
    /\ ~b.NaN
    /\ b.MinLat <= ll.Lat /\ ll.Lat <= b.MaxLat
    /\ b.MinLon <= ll.Lon /\ ll.Lon <= b.MaxLon

\* C27: FilterByBounds returns, in the order of the input, exactly the
\* features that pass: a point feature passes if and only if its coordinate
\* lies within the bounds (edges included), a line feature if and only if
\* one of its vertices at least does.
C27_FilterExact ==
    lastOp = "FilterByBounds" =>
        LET ShouldPass(f) ==
                IF f.Point # <<>> THEN Within(req.bounds, f.Point[1])
                ELSE \E i \in DOMAIN f.Points : Within(req.bounds, f.Points[i])
        IN  req.result = SelectSeq(req.features, ShouldPass)

\* a line through the view with no vertex in it, then a line whose last
\* vertex alone is in it, on the western edge: the second alone is returned
C27_Witness ==
    /\ lastOp = "FilterByBounds"
    /\ ~req.bounds.NaN
    /\ Len(req.features) = 2
    /\ req.features[1] =
          NewLineFeature("Highway", <<PlaceAt(0 - 1, 0 - 1),
                                      PlaceAt(PlaceWidth, PlaceHeight)>>)
    /\ req.features[2] =
          NewLineFeature("Highway", <<PlaceAt(0 - 2, 3), PlaceAt(0 - 1, 3),
                                      PlaceAt(0, 3)>>)
    /\ req.bounds.MinLon = PlaceAt(0, 3).Lon
    /\ req.result = <<req.features[2]>>

\* the configurations the claims on the projection are about
ValidConfig(p) ==
    /\ p.radiusMiles > 0
    /\ p.screenWidth >= 1 /\ p.screenHeight >= 1
    /\ p.aspectRatio >= 10 /\ p.aspectRatio <= 40

\* C28: with radius > 0, a grid of one cell at least each way and an
\* aspect ratio in [1,4], the points at the distance of the radius due
\* north, south, east and west of the centre project no further from the
\* centre cell than half the grid height in rows and half the grid width
\* in columns.
C28_CircleFits ==
    (/\ lastOp = "Project"
     /\ ValidConfig(Proj)
     /\ LatLon(req.lat, req.lon) \in Cardinals(Proj))
        => /\ 2 * Abs(req.x - Quot(Proj.screenWidth, 2)) <= Proj.screenWidth
           /\ 2 * Abs(req.y - Quot(Proj.screenHeight, 2)) <= Proj.screenHeight

\* the offsets, in rows and in columns, of the points due north and due
\* east from the centre cell
RowDelta(p) ==
    Abs(Project(p, North(p).Lat, North(p).Lon).Y - Quot(p.screenHeight, 2))
ColDelta(p) ==
    Abs(Project(p, East(p).Lat, East(p).Lon).X - Quot(p.screenWidth, 2))

\* C29: for aspect ratio a (2.0 in the stated case), the point at distance
\* R due north of the centre and the point at distance R due east of it
\* project to offsets from the centre cell with rowDelta * a equal to
\* colDelta up to one cell of rounding (here: one cell on each of the two
\* offsets, that is a + 1 cells).
C29_AspectCorrected ==
    (/\ lastOp = "Project"
     /\ ValidConfig(Proj)
     /\ LatLon(req.lat, req.lon) = North(Proj))
        => Abs(RowDelta(Proj) * Proj.aspectRatio - 10 * ColDelta(Proj))
              <= Proj.aspectRatio + 10

\* the first half of C30: for (lat, lon) inside GetBounds(),
\* Unproject(Project(lat, lon)) differs from (lat, lon) by less than one
\* cell's angular size on each axis (and the tenth of a degree in which
\* the coordinates are counted)
C30_ForwardThenInverse ==
    (/\ lastOp = "Project"
     /\ ValidConfig(Proj)
     /\ Contains(GetBounds(Proj), req.lat, req.lon))
        => /\ Abs(Unproject(Proj, req.x, req.y).Lat - req.lat) * Proj.scaleY
                 < 10000 + Proj.scaleY
           /\ Abs(Unproject(Proj, req.x, req.y).Lon - req.lon) * Proj.scaleX
                 < 10000 + Proj.scaleX

\* C30: Unproject is the inverse of Project up to one cell: the first half
\* above, and for every cell (x, y) of the grid
\* Project(Unproject(x, y)) = (x, y).
C30_RoundTrip ==
    /\ C30_ForwardThenInverse
    /\ (lastOp = "Unproject" /\ ValidConfig(Proj))
          => /\ Project(Proj, req.lat, req.lon).X = req.x
             /\ Project(Proj, req.lat, req.lon).Y = req.y

\* C31: the map radius is within the zoom range of 10 to 1000 miles after
\* any sequence of ZoomIn and ZoomOut, from any start radius the program
\* accepts.
C31_RadiusInRange ==
    lastOp \in {"ZoomIn", "ZoomOut"} =>
        /\ mapView.radiusMiles >= MinRadius
        /\ mapView.radiusMiles <= MaxRadius

\* C39: ZoomIn never increases the map radius and ZoomOut never decreases
\* it, for every start radius the program accepts from the -r flag.
C39_ZoomMonotonic ==
    [][/\ lastOp' = "ZoomIn" => mapView'.radiusMiles <= mapView.radiusMiles
       /\ lastOp' = "ZoomOut" => mapView'.radiusMiles >= mapView.radiusMiles]_vars

\* C36: the position stored for a tracked aircraft is the (latitude,
\* longitude) pair of one single received record: no entry holds a latitude
\* of one record together with a longitude of another (stated of the
\* entries between two calls of Update).
C36_PositionOfOneRecord ==
    upc = 0 =>
        \A k \in DOMAIN aircraft :
            \/ /\ heap[aircraft[k]].Latitude = NilF
               /\ heap[aircraft[k]].Longitude = NilF
            \/ \E i \in 1..Len(hist[aircraft[k]]) :
                  /\ hist[aircraft[k]][i].Latitude = heap[aircraft[k]].Latitude
                  /\ hist[aircraft[k]][i].Longitude
                        = heap[aircraft[k]].Longitude

\* C37: position lock is monotonic while an aircraft is tracked: a step
\* that keeps the entry of an ICAO clears neither its latitude nor its
\* longitude, so a locked entry stays locked until PruneStale removes it;
\* an entry created for an ICAO, for the first time or again after its
\* eviction, is the new record and carries its fields alone.
C37_LockMonotonic ==
    [][\A k \in DOMAIN aircraft' :
          IF k \in DOMAIN aircraft /\ aircraft'[k] = aircraft[k]
          THEN /\ heap[aircraft[k]].Latitude # NilF
                    => heap'[aircraft[k]].Latitude # NilF
               /\ heap[aircraft[k]].Longitude # NilF
                    => heap'[aircraft[k]].Longitude # NilF
               /\ PositionLocked(heap[aircraft[k]])
                    => PositionLocked(heap'[aircraft[k]])
          ELSE /\ lastOp' = "Update"
               /\ heap'[aircraft'[k]] = uac'
               /\ hist'[aircraft'[k]] = <<uac'>>]_vars

\* A1 was locked by its first record, evicted, and re-created by a record
\* without position: the new entry is not locked; and B, locked by its
\* first record, is still locked
C37_Recreated ==
    /\ ICAO_A1 \in DOMAIN aircraft
    /\ aircraft[ICAO_A1] > 1
    /\ heap[1].ICAO = ICAO_A1 /\ PositionLocked(heap[1])
    /\ ~PositionLocked(heap[aircraft[ICAO_A1]])

\* an entry locked by one record has since merged a record without
\* position and is still locked at the position of the first
C37_Witness ==
    /\ upc = 0
    /\ \E k \in DOMAIN aircraft :
          /\ Len(hist[aircraft[k]]) = 2
          /\ PositionLocked(hist[aircraft[k]][1])
          /\ hist[aircraft[k]][2].Latitude = NilF
          /\ hist[aircraft[k]][2].Longitude = NilF
          /\ heap[aircraft[k]].Latitude = hist[aircraft[k]][1].Latitude
          /\ heap[aircraft[k]].Longitude = hist[aircraft[k]][1].Longitude

\* C35: after any sequence of ListView.Update, SelectNext, SelectPrev and
\* UpdateDimensions: selectedIndex >= 0, selectedIndex < len(aircraft)
\* whenever the list is not empty (GetSelected returns nothing only for an
\* empty list), and 0 <= scrollOffset <= selectedIndex < scrollOffset +
\* maxVisible with maxVisible >= 1.
C35_ListInvariant ==
    /\ listView.selectedIndex >= 0
    /\ Len(listView.aircraft) > 0
          => listView.selectedIndex < Len(listView.aircraft)
    /\ GetSelected(listView) = 0 <=> Len(listView.aircraft) = 0
    /\ 0 <= listView.scrollOffset
    /\ listView.scrollOffset <= listView.selectedIndex
    /\ listView.selectedIndex < listView.scrollOffset + listView.maxVisible
    /\ listView.maxVisible >= 1

\* SelectNext has moved the selection to the last of three aircraft in a
\* window of one row, which scrolled with it
C35_Witness ==
    /\ lastOp = "SelectNext"
    /\ Len(listView.aircraft) = 3
    /\ listView.maxVisible = 1
    /\ listView.selectedIndex = 2
    /\ listView.scrollOffset = 2
\* C34: the selection is stable by identity: when a tick (App.update)
\* hands ListView.Update a new snapshot in which the aircraft selected
\* before is still tracked, GetSelected returns that same aircraft (the
\* same ICAO) afterwards, whatever was added or evicted
C34_SelectionStable ==
    [][(/\ lastOp' = "App.update"
        /\ GetSelected(listView) # 0
        /\ \E i \in 1..Len(snap') :
              heap[snap'[i]].ICAO = heap[GetSelected(listView)].ICAO)
          => /\ GetSelected(listView') # 0
             /\ heap[GetSelected(listView')].ICAO
                    = heap[GetSelected(listView)].ICAO]_vars

\* C33: the keys follow the view-mode state machine. In map view Enter
\* switches to detail view, Up and Down move the selection by one row
\* within the list, Q and ESC close a.quit; in detail view ESC returns to
\* map view without quitting and Up, Down and Enter change neither the
\* selection nor the view mode; a.quit is closed at most once, and the
\* step that closes it is the step in which Run returns
C33_ViewModes ==
    [][/\ (lastOp' = "KeyEnter" /\ currentView = "Map")
            => currentView' = "Detail" /\ quit' = quit /\ apc' = apc
       /\ (lastOp' = "KeyDown" /\ currentView = "Map")
            => /\ listView'.selectedIndex
                    = IF listView.selectedIndex < Len(listView.aircraft) - 1
                      THEN listView.selectedIndex + 1
                      ELSE listView.selectedIndex
               /\ currentView' = "Map" /\ quit' = quit /\ apc' = apc
       /\ (lastOp' = "KeyUp" /\ currentView = "Map")
            => /\ listView'.selectedIndex
                    = IF listView.selectedIndex > 0
                      THEN listView.selectedIndex - 1
                      ELSE listView.selectedIndex
               /\ currentView' = "Map" /\ quit' = quit /\ apc' = apc
       /\ (lastOp' = "KeyQuit"
              \/ (lastOp' = "KeyEscape" /\ currentView = "Map"))
            => quit = "open" /\ quit' = "closed"
       /\ (lastOp' = "KeyEscape" /\ currentView = "Detail")
            => currentView' = "Map" /\ quit' = "open" /\ apc' = "run"
       /\ (lastOp' \in {"KeyUp", "KeyDown", "KeyEnter"}
              /\ currentView = "Detail")
            => /\ listView' = listView
               /\ currentView' = "Detail"
               /\ quit' = quit /\ apc' = apc
       /\ quit = "closed" => quit' = "closed" /\ apc' # "run"
       /\ panicked' # "close of closed channel"
       /\ (quit = "open" /\ quit' = "closed")
            => apc = "run" /\ apc' = "cancel"]_vars

\* ESC in detail view, entered with Enter on a selected aircraft, has
\* brought the map view back and Run is still in its loop
C33_Witness ==
    /\ lastOp = "KeyEscape"
    /\ currentView = "Map"
    /\ detailView.aircraft # 0
    /\ listView.selectedIndex = 1
    /\ quit = "open"
    /\ apc = "run"

\* Q has closed a.quit and Run has returned
C33_Quit ==
    /\ lastOp = "KeyQuit"
    /\ quit = "closed"
    /\ apc = "cancel"

\* the centre of the view: that of the projection it holds
Center ==
    <<projs[mapView.projection].centerLat,
      projs[mapView.projection].centerLon>>

\* the position an entry holds
PositionOf(r) == <<heap[r].Latitude[1], heap[r].Longitude[1]>>

\* the aircraft of slice s that have a locked position
LockedIn(s) == {s[i] : i \in {j \in 1..Len(s) : PositionLocked(heap[s[j]])}}

\* the one of them with the lowest ICAO
LowestLocked(s) ==
    CHOOSE r \in LockedIn(s) :
        \A q \in LockedIn(s) : q = r \/ StrLess(heap[r].ICAO, heap[q].ICAO)

\* the steps that change the centre
CenterMoves == Center' # Center

\* a tick centres the view, which no tick and no key has centred before,
\* on the lowest-ICAO locked aircraft of its snapshot
AutoCentres ==
    /\ lastOp' = "App.update"
    /\ ~mapView.centerSet
    /\ LockedIn(snap') # {}
    /\ mapView'.centerSet
    /\ Center' = PositionOf(LowestLocked(snap'))

C32_KeptByTick ==
    /\ lastOp = "App.update"
    /\ mapView.centerSet
    /\ Len(snap) = 2
    /\ PositionLocked(heap[snap[1]])
    /\ PositionLocked(heap[snap[2]])
    /\ Center = PositionOf(snap[2])
    /\ Center # PositionOf(snap[1])

\* the renderer draws with the projection and the canvas the view holds,
\* the canvas has the size of the projection's grid and of the view, and
\* the projection has the view's radius
ViewAgrees ==
    /\ renderer.projection = mapView.projection
    /\ renderer.canvas = mapView.canvas
    /\ cvs[mapView.canvas].width = mapView.width
    /\ cvs[mapView.canvas].height = mapView.height
    /\ projs[mapView.projection].screenWidth = mapView.width
    /\ projs[mapView.projection].screenHeight = mapView.height
    /\ projs[mapView.projection].radiusMiles = mapView.radiusMiles

\* C38: whatever zooms, resizes, automatic centrings and re-centrings the
\* loop of Run has made, the renderer and the view hold the same
\* projection and canvas, whose sizes and radius agree with the view's; a
\* zoom leaves the centre and the grid size as they are, a resize leaves
\* the centre and the radius as they are
C38_ViewAgrees ==
    [][/\ ViewAgrees
       /\ ViewAgrees'
       /\ lastOp' \in {"ZoomIn", "ZoomOut"}
            => /\ Center' = Center
               /\ mapView'.width = mapView.width
               /\ mapView'.height = mapView.height
               /\ cvs' = cvs
       /\ lastOp' = "UpdateDimensions"
            => /\ Center' = Center
               /\ mapView'.radiusMiles = mapView.radiusMiles]_vars

\* the view was centred on an aircraft, zoomed in and then resized to a
\* smaller screen: the centre is the aircraft's, the radius the zoomed
\* one, the grid the new one
C38_Witness ==
    /\ lastOp = "UpdateDimensions"
    /\ mapView.centerSet
    /\ Center # <<DefaultCenterLat, DefaultCenterLon>>
    /\ mapView.radiusMiles < DefaultRadius
    /\ mapView.projection > 1
    /\ mapView.canvas > 1
    /\ mapView.width = ResizedWidth
    /\ ViewAgrees

\* C40: DrawLine ends for every pair of int end points: after at most
\* max(|x1 - x0|, |y1 - y0|) moves beyond the first cell the current cell
\* is the end point, where the loop breaks
C40_LineTerminates ==
    dl.pc = "loop" =>
        /\ dl.n <= Max(Abs(dl.x1 - dl.x0), Abs(dl.y1 - dl.y0))
        /\ dl.n = Max(Abs(dl.x1 - dl.x0), Abs(dl.y1 - dl.y0))
              => dl.x = dl.x1 /\ dl.y = dl.y1

====
